---- MODULE Spec2Model ----
(***************************************************************************)
(* Verification model of the template-guided generation pipeline           *)
(* (AdeenoAi/fdabc): table post-processing of LlamaAgentFlow, confidence   *)
(* aggregation of VerificationAgent, retrieval de-duplication of           *)
(* DataExtractor and section parsing of TemplateParser.                    *)
(*                                                                         *)
(* Text representation.  A line of markdown is the sequence of its         *)
(* '|'-separated parts, each part stripped of surrounding whitespace       *)
(* (python: [p.strip() for p in line.split('|')]); a part ("cell") is a    *)
(* sequence of one-character strings.  "| Dose | Res |" is                 *)
(* << <<>>, <<"D","o","s","e">>, <<"R","e","s">>, <<>> >>, the plain line  *)
(* "x" is << <<"x">> >> and the empty line is << <<>> >>.  A content (a    *)
(* python str) is the sequence of its lines (content.split('\n')), so the  *)
(* empty string is << << <<>> >> >>; None is the empty sequence.           *)
(***************************************************************************)
EXTENDS Integers, Sequences, FiniteSets, TLC

VARIABLES
    tpl,        \* template_content handed to process_section (None = <<>>)
    gen,        \* text returned by query_engine.query (the completion service)
    op,         \* operation of LlamaAgentFlow applied last
    inp,        \* content handed to _enforce_template_table_count
    out,        \* content returned by the operation
    vcontent,   \* generated_content handed to verify_generated_content
    vconfs,     \* confidence of each entry of verification_results
    vresult,    \* dictionary returned by verify_generated_content
    hits,       \* what vector_store.search returns for each query, in order
    relevant,   \* all_results of extract_section_data after deduplication
    tcontent,   \* content of the template file load_template read last
    sections,   \* TemplateParser.sections, in insertion order
    toc,        \* TemplateParser.toc_structure
    glossary,   \* TemplateParser.glossary, its terms in insertion order
    lookup,     \* last call of get_section_structure and what it returned
    chunker,    \* chunk_size, chunk_overlap and max_chunk_size of the SmartChunker
    document,   \* parsed document handed to the chunker
    chunked,    \* what each call of the chunker returned, in call order
    flow,       \* the agent flow object: what its constructor set up
    request,    \* arguments of the call of the agent flow
    returned,   \* what the call of the agent flow returned or raised
    points      \* points of the Qdrant collection, by id

tblVars == <<tpl, gen, inp, out>>
verVars == <<vcontent, vconfs, vresult>>
extVars == <<hits, relevant>>
parVars == <<tcontent, sections, toc, glossary, lookup>>
chkVars == <<chunker, document, chunked>>
flowVars == <<flow, request, returned>>
stoVars == <<points>>
pipelineVars == <<chkVars, flowVars, stoVars>>

vars == <<op, tblVars, verVars, extVars, parVars, pipelineVars>>

-----------------------------------------------------------------------------
(* Bounds of the model *)

MaxGenLines == 5
MaxTableLines == 3
MaxContentLines == 4

-----------------------------------------------------------------------------
(* Lines and cells *)

\* no dictionary returned yet
NoResult == [returned |-> FALSE]

\* the components a specification does not exercise stay as constructed
TablesIdle == tpl = <<>> /\ gen = <<>> /\ inp = <<>> /\ out = <<>>
VerifyIdle == vcontent = <<>> /\ vconfs = <<>> /\ vresult = NoResult
ExtractIdle == hits = <<>> /\ relevant = <<>>
ParserIdle ==
    tcontent = <<>> /\ sections = <<>> /\ toc = <<>> /\ glossary = <<>> /\ lookup = NoResult
ChunkerIdle == chunker = <<>> /\ document = <<>> /\ chunked = <<>>
FlowIdle == flow = <<>> /\ request = <<>> /\ returned = NoResult
StoreIdle == points = <<>>
PipelineIdle == ChunkerIdle /\ FlowIdle /\ StoreIdle

None == <<>>
Blank == << <<>> >>
EmptyContent == << Blank >>

wDose == <<"D", "o", "s", "e">>
wRes == <<"R", "e", "s">>
wId == <<"I", "d">>
wMg == <<"m", "g">>
wDash == <<"-", "-", "-">>

TextLine == << <<"x">> >>
RowDoseRes == << <<>>, wDose, wRes, <<>> >>
RowIdMg == << <<>>, wId, wMg, <<>> >>
SepLine == << <<>>, wDash, wDash, <<>> >>

\* str.lower() on the characters of the model
Lower(ch) ==
    CASE ch = "A" -> "a"
      [] ch = "B" -> "b"
      [] ch = "C" -> "c"
      [] ch = "D" -> "d"
      [] ch = "E" -> "e"
      [] ch = "F" -> "f"
      [] ch = "G" -> "g"
      [] ch = "H" -> "h"
      [] ch = "I" -> "i"
      [] ch = "J" -> "j"
      [] ch = "K" -> "k"
      [] ch = "L" -> "l"
      [] ch = "M" -> "m"
      [] ch = "N" -> "n"
      [] ch = "O" -> "o"
      [] ch = "P" -> "p"
      [] ch = "Q" -> "q"
      [] ch = "R" -> "r"
      [] ch = "S" -> "s"
      [] ch = "T" -> "t"
      [] ch = "U" -> "u"
      [] ch = "V" -> "v"
      [] ch = "W" -> "w"
      [] ch = "X" -> "x"
      [] ch = "Y" -> "y"
      [] ch = "Z" -> "z"
      [] OTHER -> ch

LowerCell(cell) == [i \in 1..Len(cell) |-> Lower(cell[i])]

\* '|' in line
HasPipe(line) == Len(line) > 1

\* line.strip().startswith('|') or line.strip().endswith('|')
PipeAtEdge(line) == line[1] = <<>> \/ line[Len(line)] = <<>>

\* three consecutive characters ch in the line ('---' in line, '===' in line)
HasRun3(line, ch) ==
    \E k \in 1..Len(line) : \E i \in 1..Len(line[k]) :
        /\ i + 2 <= Len(line[k])
        /\ line[k][i] = ch /\ line[k][i + 1] = ch /\ line[k][i + 2] = ch

\* re.match(r'^\s*\|[\s\-:|]+\|\s*$', line)
SepRegex(line) ==
    /\ Len(line) >= 3
    /\ line[1] = <<>>
    /\ line[Len(line)] = <<>>
    /\ \A k \in 2..(Len(line) - 1) : \A i \in 1..Len(line[k]) : line[k][i] \in {"-", ":"}

\* is_table_row of _enforce_template_table_count / _preserve_tables
IsTableRow(line) == HasPipe(line) /\ PipeAtEdge(line)

\* is_table_row or is_separator, llama_agent_flow.py:705-708 (and 388-391)
EnfTableLine(line) ==
    IsTableRow(line) \/ HasRun3(line, "-") \/ HasRun3(line, "=") \/ SepRegex(line)

\* not any(c in line for c in ['---', '==='])
NoRule(line) == ~HasRun3(line, "-") /\ ~HasRun3(line, "=")

\* [h.strip() for h in line.split('|') if h.strip()]
NonEmptyCells(line) == SelectSeq(line, LAMBDA c : c # <<>>)

\* set(h.strip().lower() for h in line.split('|') if h.strip())
HeaderSet(line) == {LowerCell(line[k]) : k \in {j \in 1..Len(line) : line[j] # <<>>}}

-----------------------------------------------------------------------------
(* _enforce_template_table_count: the scan for tables *)

\* The loop of lines 704-722: a found table is the sequence of the indices
\* of a maximal run of table lines.
RECURSIVE ScanTables(_, _, _, _)
ScanTables(lines, i, cur, found) ==
    IF i > Len(lines)
    THEN IF cur # <<>> THEN Append(found, cur) ELSE found
    ELSE IF EnfTableLine(lines[i])
         THEN ScanTables(lines, i + 1, Append(cur, i), found)
         ELSE ScanTables(lines, i + 1, <<>>,
                         IF cur # <<>> THEN Append(found, cur) ELSE found)

FoundTables(lines) == ScanTables(lines, 1, <<>>, <<>>)

-----------------------------------------------------------------------------
(* _extract_template_tables *)

\* headers of a template table: the cells of its first line without a rule
RECURSIVE FirstHeaders(_, _)
FirstHeaders(tlines, j) ==
    IF j > Len(tlines) THEN <<>>
    ELSE IF HasPipe(tlines[j]) /\ NoRule(tlines[j]) THEN NonEmptyCells(tlines[j])
    ELSE FirstHeaders(tlines, j + 1)

TemplateTable(tlines) == [headers |-> FirstHeaders(tlines, 1), lines |-> tlines]

\* The loop of lines 651-685.  in_table stays set while a line holds a '|'
\* that is not at an edge; such a line is not appended.
RECURSIVE ScanTemplate(_, _, _, _, _)
ScanTemplate(lines, i, cur, inTable, tables) ==
    IF i > Len(lines)
    THEN IF cur # <<>> THEN Append(tables, TemplateTable(cur)) ELSE tables
    ELSE IF IsTableRow(lines[i])
         THEN ScanTemplate(lines, i + 1, Append(cur, lines[i]), TRUE, tables)
         ELSE IF inTable /\ (lines[i] = Blank \/ ~HasPipe(lines[i]))
              THEN ScanTemplate(lines, i + 1, <<>>, FALSE,
                                IF cur # <<>> THEN Append(tables, TemplateTable(cur))
                                ELSE tables)
              ELSE ScanTemplate(lines, i + 1, cur, inTable, tables)

ExtractTemplateTables(template) == ScanTemplate(template, 1, <<>>, FALSE, <<>>)

-----------------------------------------------------------------------------
(* _enforce_template_table_count: which tables are kept *)

Max(a, b) == IF a >= b THEN a ELSE b

\* set(h.lower() for h in template_table.get('headers', []) if h)
TemplateHeaders(tt) == {LowerCell(tt.headers[k]) : k \in 1..Len(tt.headers)}

\* overlap = len(template_headers & found_headers) / max(len(template_headers), 1)
\* overlap > 0.3, in tenths
OverlapAbove(th, fh) ==
    10 * Cardinality(th \cap fh) > 3 * Max(Cardinality(th), 1)

\* lines 741-749: some line of the found table, not a rule, overlaps
TableMatches(th, lines, table) ==
    \E j \in 1..Len(table) :
        /\ HasPipe(lines[table[j]])
        /\ NoRule(lines[table[j]])
        /\ OverlapAbove(th, HeaderSet(lines[table[j]]))

\* lines 733-752: each template table takes the first found table, not yet
\* kept, that matches it
RECURSIVE MatchPhase(_, _, _, _, _)
MatchPhase(tts, t, lines, found, kept) ==
    IF t > Len(tts) THEN kept
    ELSE LET cand == {idx \in 1..Len(found) :
                        /\ idx \notin kept
                        /\ TableMatches(TemplateHeaders(tts[t]), lines, found[idx])}
         IN  IF cand = {} THEN MatchPhase(tts, t + 1, lines, found, kept)
             ELSE MatchPhase(tts, t + 1, lines, found,
                             kept \cup {CHOOSE m \in cand : \A c \in cand : m <= c})

\* the fill with the bound of the loop off by one
RECURSIVE FillFirstInclusive(_, _, _, _)
FillFirstInclusive(idx, n, kept, expected) ==
    IF idx > n THEN kept
    ELSE IF idx \notin kept /\ Cardinality(kept) <= expected
         THEN FillFirstInclusive(idx + 1, n, kept \cup {idx}, expected)
         ELSE FillFirstInclusive(idx + 1, n, kept, expected)

\* lines 755-758: fill up with the first tables
RECURSIVE FillFirst(_, _, _, _)
FillFirst(idx, n, kept, expected) ==
    IF idx > n THEN kept
    ELSE IF idx \notin kept /\ Cardinality(kept) < expected
         THEN FillFirst(idx + 1, n, kept \cup {idx}, expected)
         ELSE FillFirst(idx + 1, n, kept, expected)

KeptIndices(lines, found, expected, tts) ==
    FillFirst(1, Len(found), MatchPhase(tts, 1, lines, found, {}), expected)

\* a removal that truncates in place: the first line of a dropped table stays
LinesToRemoveAfterFirst(found, kept) ==
    UNION {{found[idx][j] : j \in 2..Len(found[idx])} :
             idx \in {x \in 1..Len(found) : x \notin kept}}

\* lines 761-765: the line numbers of the tables not kept
LinesToRemove(found, kept) ==
    UNION {{found[idx][j] : j \in 1..Len(found[idx])} :
             idx \in {x \in 1..Len(found) : x \notin kept}}

\* [line for i, line in enumerate(lines) if i not in lines_to_remove]
RECURSIVE FilterLines(_, _, _)
FilterLines(lines, i, removed) ==
    IF i > Len(lines) THEN <<>>
    ELSE IF i \in removed THEN FilterLines(lines, i + 1, removed)
         ELSE <<lines[i]>> \o FilterLines(lines, i + 1, removed)

\* '\n'.join(list): the join of no line is the empty string
Join(lines) == IF lines = <<>> THEN EmptyContent ELSE lines

EnforceTemplateTableCount(content, expected, tts) ==
    LET found == FoundTables(content)
    IN  IF Len(found) > expected
        THEN Join(FilterLines(content, 1,
                 LinesToRemove(found, KeptIndices(content, found, expected, tts))))
        ELSE content

-----------------------------------------------------------------------------
(* _merge_table_cells, _fix_malformed_tables *)

Dashes(n) == [i \in 1..n |-> "-"]

\* str.isalnum() on one character of the model
IsAlnum(ch) == ch \notin {"-", ":", "=", "|", " "}

\* '| ' + ' | '.join(cells) + ' |'
MakeRow(cells) == << <<>> >> \o cells \o << <<>> >>

\* lines 523-540: consecutive single alphanumeric cells run into one word
RECURSIVE MergeCells(_, _, _, _)
MergeCells(cells, i, word, merged) ==
    IF i > Len(cells)
    THEN IF word # <<>> THEN Append(merged, word) ELSE merged
    ELSE IF Len(cells[i]) = 1 /\ IsAlnum(cells[i][1])
         THEN MergeCells(cells, i + 1, word \o cells[i], merged)
         ELSE MergeCells(cells, i + 1, <<>>,
                         Append(IF word # <<>> THEN Append(merged, word) ELSE merged,
                                cells[i]))

\* lines 509-545: the merged rows of the data lines
RECURSIVE MergedRows(_, _)
MergedRows(dataLines, i) ==
    IF i > Len(dataLines) THEN <<>>
    ELSE LET mc == MergeCells(NonEmptyCells(dataLines[i]), 1, <<>>, <<>>)
         IN  IF ~HasPipe(dataLines[i]) \/ mc = <<>>
             THEN MergedRows(dataLines, i + 1)
             ELSE <<MakeRow(mc)>> \o MergedRows(dataLines, i + 1)

\* line 553: '|' + '|'.join('-' * max(3, len(c.strip()) + 2) ...) + '|'
MergedSeparator(row) ==
    LET cs == NonEmptyCells(row)
    IN  MakeRow([k \in 1..Len(cs) |-> Dashes(Max(3, Len(cs[k]) + 2))])

\* None is <<>>
MergeTableCells(tableLines) ==
    LET rows == MergedRows(SelectSeq(tableLines, LAMBDA l : ~SepRegex(l)), 1)
    IN  IF rows = <<>> THEN None
        ELSE <<rows[1], MergedSeparator(rows[1])>> \o SubSeq(rows, 2, Len(rows))

\* lines 447-455: a line with more than five cells, over half of them single
Malformed(tableLines) ==
    \E j \in 1..Len(tableLines) :
        /\ HasPipe(tableLines[j])
        /\ LET cells == NonEmptyCells(tableLines[j])
               single == Cardinality({k \in 1..Len(cells) : Len(cells[k]) = 1})
           IN  Len(cells) > 5 /\ 2 * single > Len(cells)

\* is_table_row or is_separator of _fix_malformed_tables (no '===')
FixTableLine(line) == IsTableRow(line) \/ SepRegex(line) \/ HasRun3(line, "-")

\* lines 444-467 and 476-493: what a finished table contributes
FixedTable(tableLines) ==
    IF Malformed(tableLines) THEN MergeTableCells(tableLines) ELSE tableLines

RECURSIVE FixScan(_, _, _, _)
FixScan(lines, i, cur, fixed) ==
    IF i > Len(lines)
    THEN IF cur # <<>> THEN fixed \o FixedTable(cur) ELSE fixed
    ELSE IF FixTableLine(lines[i])
         THEN FixScan(lines, i + 1, Append(cur, lines[i]), fixed)
         ELSE FixScan(lines, i + 1, <<>>,
                      Append(IF cur # <<>> THEN fixed \o FixedTable(cur) ELSE fixed,
                             lines[i]))

FixMalformedTables(content) == Join(FixScan(content, 1, <<>>, <<>>))

-----------------------------------------------------------------------------
(* _normalize_table_lines, _preserve_tables *)

\* is_separator of _normalize_table_lines
NormSepLine(line) == SepRegex(line) \/ HasRun3(line, "-") \/ HasRun3(line, "=")

\* lines 586-597: the parts between a leading and a trailing pipe
RowCells(line) ==
    SubSeq(line,
           IF line[1] = <<>> THEN 2 ELSE 1,
           IF Len(line) > 1 /\ line[Len(line)] = <<>> THEN Len(line) - 1 ELSE Len(line))

\* lines 607-609: pad with empty cells, cut to num_cols
FitCols(cells, n) == [k \in 1..n |-> IF k <= Len(cells) THEN cells[k] ELSE <<>>]

\* lines 624-627: the first separator rewritten; it gets a leading '---' part
\* and no closing pipe
RewrittenSeparator(sep, n) ==
    << <<>> >> \o
    [i \in 1..(n + 1) |-> IF i = 1 THEN Dashes(3) ELSE Dashes(Max(3, Len(sep[i]) + 2))]

\* '| ' + ' | '.join(['---'] * num_cols) + ' |'
CreatedSeparator(n) == MakeRow([k \in 1..n |-> Dashes(3)])

NormalizeTableLines(tableLines) ==
    LET seps == SelectSeq(tableLines, NormSepLine)
        data == SelectSeq(tableLines, LAMBDA l : ~NormSepLine(l) /\ HasPipe(l))
        cellRows == SelectSeq([k \in 1..Len(data) |-> RowCells(data[k])],
                              LAMBDA c : c # <<>>)
        n == Len(cellRows[1])
        rows == [k \in 1..Len(cellRows) |-> MakeRow(FitCols(cellRows[k], n))]
        separator == IF seps # <<>> /\ Len(seps[1]) >= n + 1
                     THEN RewrittenSeparator(seps[1], n)
                     ELSE CreatedSeparator(n)
    IN  IF data = <<>> \/ cellRows = <<>> THEN tableLines
        ELSE <<rows[1], separator>> \o SubSeq(rows, 2, Len(rows))

\* lines 386-417: every table normalised, an empty line after each table
\* that is followed by other text
RECURSIVE PreserveScan(_, _, _, _)
PreserveScan(lines, i, cur, kept) ==
    IF i > Len(lines)
    THEN IF cur # <<>> THEN kept \o NormalizeTableLines(cur) ELSE kept
    ELSE IF EnfTableLine(lines[i])
         THEN PreserveScan(lines, i + 1, Append(cur, lines[i]), kept)
         ELSE PreserveScan(lines, i + 1, <<>>,
                  Append(IF cur # <<>>
                         THEN kept \o NormalizeTableLines(cur) \o <<Blank>>
                         ELSE kept,
                         lines[i]))

PreserveTables(content) ==
    Join(PreserveScan(FixMalformedTables(content), 1, <<>>, <<>>))

-----------------------------------------------------------------------------
(* process_section *)

\* truth value of a python str or None
Truthy(content) == content # None /\ content # EmptyContent

\* str.strip() on a content whose lines carry no outer whitespace: the empty
\* lines at both ends go
RECURSIVE LStrip(_)
LStrip(content) ==
    IF content = <<>> THEN <<>>
    ELSE IF Head(content) = Blank THEN LStrip(Tail(content)) ELSE content

RECURSIVE RStrip(_)
RStrip(content) ==
    IF content = <<>> THEN <<>>
    ELSE IF content[Len(content)] = Blank
         THEN RStrip(SubSeq(content, 1, Len(content) - 1))
         ELSE content

Strip(content) == Join(RStrip(LStrip(content)))

HeadingLine == << <<"#", "S">> >>
EmptyResponsePlaceholder == <<HeadingLine, Blank, << <<"[", "E", "]">> >> >>
QueryErrorPlaceholder == <<HeadingLine, Blank, << <<"[", "Q", "]">> >> >>
NoContentPlaceholder ==
    <<HeadingLine, Blank, << <<"[", "N">> >>, << <<"1">> >>, << <<"2">> >>, << <<"3", "]">> >> >>

\* the query's failures left without a placeholder
QueriedContentUnmarked(response, raised) ==
    IF raised THEN EmptyContent ELSE Strip(response)

\* lines 305-325: the text the query leaves in generated_content
QueriedContent(response, raised) ==
    IF raised THEN QueryErrorPlaceholder
    ELSE IF Strip(response) = EmptyContent THEN EmptyResponsePlaceholder
         ELSE Strip(response)

\* line 187
SectionTemplateTables(template) ==
    IF Truthy(template) THEN ExtractTemplateTables(template) ELSE <<>>

\* line 344: generated_content after _preserve_tables
PreservedContent(response, raised) == PreserveTables(QueriedContent(response, raised))

\* lines 347-352
EnforcedContent(template, content) ==
    LET tts == SectionTemplateTables(template)
    IN  IF Truthy(template) /\ tts # <<>>
        THEN EnforceTemplateTableCount(content, Len(tts), tts)
        ELSE content

\* lines 355-358
NonEmptyContent(content) ==
    IF Strip(content) = EmptyContent THEN NoContentPlaceholder ELSE content

GeneratedMarkdown(template, response, raised) ==
    NonEmptyContent(EnforcedContent(template, PreservedContent(response, raised)))

-----------------------------------------------------------------------------
(* Table post-processing: inputs and operations *)

SeqsUpTo(S, n) == UNION {[1..k -> S] : k \in 1..n}

\* lines the completion service may return
GenLinePool == {TextLine, RowDoseRes, RowIdMg, SepLine}

GenContents == {EmptyContent} \cup SeqsUpTo(GenLinePool, MaxGenLines)

\* template sections: none, without a table, with one, two and three tables
Templates ==
    { None,
      <<TextLine>>,
      <<RowDoseRes, SepLine>>,
      <<TextLine, RowIdMg, SepLine, Blank, TextLine>>,
      <<RowDoseRes, SepLine, Blank, RowIdMg, SepLine>>,
      <<RowIdMg, Blank, RowDoseRes>>,
      <<RowDoseRes, TextLine, RowDoseRes>>,
      <<RowDoseRes, TextLine, RowIdMg, TextLine, RowIdMg>> }

InitTables ==
    /\ tpl \in Templates
    /\ gen \in GenContents
    /\ op = "none"
    /\ inp = None
    /\ out = None
    /\ VerifyIdle
    /\ ExtractIdle
    /\ ParserIdle
    /\ PipelineIdle

\* _enforce_template_table_count called on a content with the tables of the
\* template, as process_section calls it
EnforceTableCount ==
    /\ op = "none"
    /\ op' = "enforce"
    /\ inp' = gen
    /\ out' = EnforceTemplateTableCount(gen, Len(ExtractTemplateTables(tpl)),
                                        ExtractTemplateTables(tpl))
    /\ UNCHANGED <<tpl, gen, verVars, extVars, parVars, pipelineVars>>

\* process_section, the query returning gen
ProcessSection ==
    /\ op = "none"
    /\ op' = "process"
    /\ inp' = PreservedContent(gen, FALSE)
    /\ out' = GeneratedMarkdown(tpl, gen, FALSE)
    /\ UNCHANGED <<tpl, gen, verVars, extVars, parVars, pipelineVars>>

\* process_section, the query raising
ProcessSectionQueryError ==
    /\ op = "none"
    /\ op' = "process_error"
    /\ inp' = PreservedContent(gen, TRUE)
    /\ out' = GeneratedMarkdown(tpl, gen, TRUE)
    /\ UNCHANGED <<tpl, gen, verVars, extVars, parVars, pipelineVars>>

NextTables ==
    \/ EnforceTableCount
    \/ ProcessSection
    \/ ProcessSectionQueryError

Spec == InitTables /\ [][NextTables]_vars

-----------------------------------------------------------------------------
(* Table-count enforcement: properties *)

Enforcing == op \in {"enforce", "process", "process_error"}

\* the number of tables the template declares
DeclaredTables == Len(ExtractTemplateTables(tpl))

\* the tables of a content, each the set of its line numbers: the maximal
\* runs of table lines
TableRuns(content) ==
    {a..b : a \in 1..Len(content), b \in 1..Len(content)} \cap
    {r \in SUBSET (1..Len(content)) :
        /\ r # {}
        /\ \A i \in r : EnfTableLine(content[i])
        /\ \A i \in 1..Len(content) :
              (i \notin r /\ (i + 1 \in r \/ i - 1 \in r)) => ~EnfTableLine(content[i])
        /\ \A i \in r, j \in r : \A k \in i..j : k \in r}

\* the content left when the lines numbered in gone are deleted
Without(content, gone) ==
    LET stay == (1..Len(content)) \ gone
    IN  [k \in 1..Cardinality(stay) |->
            content[CHOOSE x \in stay : Cardinality({y \in stay : y < x}) = k - 1]]

\* C1: whenever the content handed to the enforcement holds more tables than
\* the N >= 1 tables the template declares, the content returned by
\* _enforce_template_table_count, and by process_section, holds exactly N
\* tables.
C1_ExactlyDeclaredCount ==
    (Enforcing /\ DeclaredTables >= 1 /\ Cardinality(TableRuns(inp)) > DeclaredTables)
        => Cardinality(TableRuns(out)) = DeclaredTables

C1_Witness ==
    /\ op = "process"
    /\ DeclaredTables = 2
    /\ Cardinality(TableRuns(inp)) = 3
    /\ Cardinality(TableRuns(out)) = 2

\* C2 as claimed: the markdown returned by process_section holds exactly as
\* many tables as the template section declares, zero included.
C2_ExactMatchAlways ==
    (op \in {"process", "process_error"} /\ Truthy(tpl))
        => Cardinality(TableRuns(out)) = Len(SectionTemplateTables(tpl))

\* the header row of a generated table: its first line with a '|' and no rule
HeaderRows(content, run) ==
    {i \in run : /\ HasPipe(content[i]) /\ NoRule(content[i])
                 /\ \A j \in run : (j < i) => ~(HasPipe(content[j]) /\ NoRule(content[j]))}

\* the header row of the table shares at least 30% of the template's tokens
HeaderShares30(content, run, th) ==
    \E i \in HeaderRows(content, run) :
        /\ th # {}
        /\ 10 * Cardinality(th \cap HeaderSet(content[i])) >= 3 * Cardinality(th)

\* C3 as claimed: one template table, several generated tables, exactly one
\* of them with a header row sharing at least 30% of the template's header
\* tokens: exactly that table is retained and the others are removed.
C3_RetainsTheMatchingTable ==
    (op = "enforce" /\ DeclaredTables = 1 /\ Cardinality(TableRuns(inp)) > 1)
        => LET th == TemplateHeaders(ExtractTemplateTables(tpl)[1])
               hit == {r \in TableRuns(inp) : HeaderShares30(inp, r, th)}
           IN  Cardinality(hit) = 1
                  => out = Without(inp, UNION (TableRuns(inp) \ hit))

\* C4: enforcement only deletes whole tables: the returned content is the
\* content handed in without the lines of some of its tables, every other
\* line kept in place and in order; and it is the content handed in when
\* its tables do not exceed the declared count.
C4_DeletesWholeTablesOnly ==
    op = "enforce"
        => /\ \E gone \in SUBSET TableRuns(inp) : out = Join(Without(inp, UNION gone))
           /\ Cardinality(TableRuns(inp)) <= DeclaredTables => out = inp

C4_Witness ==
    /\ op = "enforce"
    /\ DeclaredTables = 1
    /\ Cardinality(TableRuns(inp)) = 2
    /\ Len(out) + 2 = Len(inp)
    /\ \E i \in 1..Len(out) : ~EnfTableLine(out[i])

-----------------------------------------------------------------------------
(* Malformed-table repair: inputs and operations *)

c(ch) == <<ch>>

\* | D | o | s | e | R | e | s |
RowLetters == MakeRow(<<c("D"), c("o"), c("s"), c("e"), c("R"), c("e"), c("s")>>)
\* | D | o | s | e | mg | R | e | s |
RowLettersMg == MakeRow(<<c("D"), c("o"), c("s"), c("e"), wMg, c("R"), c("e"), c("s")>>)
\* | - | - | - | - | - | - |
RowSingleDashes == MakeRow(<<c("-"), c("-"), c("-"), c("-"), c("-"), c("-")>>)

RepairLinePool == {RowLetters, RowLettersMg, RowSingleDashes, RowDoseRes, SepLine, TextLine}

InitRepair ==
    /\ tpl = None
    /\ gen \in SeqsUpTo(RepairLinePool, MaxTableLines)
    /\ op = "none"
    /\ inp = None
    /\ out = None
    /\ VerifyIdle
    /\ ExtractIdle
    /\ ParserIdle
    /\ PipelineIdle

\* _merge_table_cells on the lines of a table
MergeTable ==
    /\ op = "none"
    /\ \A i \in 1..Len(gen) : FixTableLine(gen[i])
    /\ op' = "merge"
    /\ inp' = gen
    /\ out' = MergeTableCells(gen)
    /\ UNCHANGED <<tpl, gen, verVars, extVars, parVars, pipelineVars>>

\* _fix_malformed_tables on a content
FixMalformed ==
    /\ op = "none"
    /\ op' = "fix"
    /\ inp' = gen
    /\ out' = FixMalformedTables(gen)
    /\ UNCHANGED <<tpl, gen, verVars, extVars, parVars, pipelineVars>>

NextRepair ==
    \/ MergeTable
    \/ FixMalformed
    \/ ProcessSection

SpecRepair == InitRepair /\ [][NextRepair]_vars

\* C5 as claimed: a header row of the single characters D,o,s,e,R,e,s is
\* repaired into the two cells "Dose" and "Res", and the repaired table has
\* a separator row with as many columns as the merged header.
C5_MergesEachWordSeparately ==
    (op = "merge" /\ gen[1] = RowLetters)
        => /\ out # None
           /\ NonEmptyCells(out[1]) = <<wDose, wRes>>
           /\ Len(NonEmptyCells(out[2])) = Len(NonEmptyCells(out[1]))

-----------------------------------------------------------------------------
(* VerificationAgent: claims, per-claim confidence, aggregation *)

(* A line of the verified content is described by what the extraction reads  *)
(* in it: whether it is a table row (one cell), the number it holds (0: no   *)
(* number) with its unit, and whether it is a sentence of 20 characters or   *)
(* more with a verb cue.  No line holds a "Key: value" pair.  Confidences     *)
(* are in hundredths.                                                         *)
vFact == [row |-> FALSE, val |-> 0, unit |-> "", fact |-> TRUE]
vNum150 == [row |-> FALSE, val |-> 150, unit |-> "mg", fact |-> FALSE]
vNum7 == [row |-> FALSE, val |-> 7, unit |-> "ug", fact |-> FALSE]
vRowHead == [row |-> TRUE, val |-> 0, unit |-> "", fact |-> FALSE]
vRow150 == [row |-> TRUE, val |-> 150, unit |-> "mg", fact |-> FALSE]

VLinePool == {vFact, vNum150, vNum7, vRowHead, vRow150}

\* _extract_markdown_tables: the runs of two or more table rows, each the
\* sequence of its line numbers
RECURSIVE ScanMarkdownTables(_, _, _, _)
ScanMarkdownTables(lines, i, cur, tables) ==
    IF i > Len(lines)
    THEN IF Len(cur) >= 2 THEN Append(tables, cur) ELSE tables
    ELSE IF lines[i].row
         THEN ScanMarkdownTables(lines, i + 1, Append(cur, i), tables)
         ELSE ScanMarkdownTables(lines, i + 1, <<>>,
                                 IF Len(cur) >= 2 THEN Append(tables, cur) ELSE tables)

\* _extract_table_claims: the first row is the header, every later row whose
\* cell holds a digit is a table_cell claim
TableClaims(lines, table) ==
    [k \in 1..Cardinality({j \in 2..Len(table) : lines[table[j]].val > 0}) |-> "table_cell"]

RECURSIVE AllTableClaims(_, _, _)
AllTableClaims(lines, tables, t) ==
    IF t > Len(tables) THEN <<>>
    ELSE TableClaims(lines, tables[t]) \o AllTableClaims(lines, tables, t + 1)

\* lines 220-238: a numeric_data claim for every line, not a table row, with a
\* number and a unit
RECURSIVE NumericClaims(_, _)
NumericClaims(lines, i) ==
    IF i > Len(lines) THEN <<>>
    ELSE (IF ~lines[i].row /\ lines[i].val > 0 THEN <<"numeric_data">> ELSE <<>>)
         \o NumericClaims(lines, i + 1)

\* lines 256-275: a factual_statement claim for every sentence with a cue
RECURSIVE FactualClaims(_, _)
FactualClaims(lines, i) ==
    IF i > Len(lines) THEN <<>>
    ELSE (IF lines[i].fact THEN <<"factual_statement">> ELSE <<>>)
         \o FactualClaims(lines, i + 1)

\* the types of the claims, in the order of the list _extract_claims returns
ExtractClaims(lines) ==
    AllTableClaims(lines, ScanMarkdownTables(lines, 1, <<>>, <<>>), 1)
    \o NumericClaims(lines, 1) \o FactualClaims(lines, 1)

\* _validate_numeric_precision, lines 574-585: one issue per number above 100
\* that is a multiple of 10 or of 5
RoundNumberIssues(lines) ==
    Cardinality({i \in 1..Len(lines) :
        /\ lines[i].val > 100
        /\ (lines[i].val % 10 = 0 \/ lines[i].val % 5 = 0)})

\* lines 588-597: one more issue when mg and µg are both used ('ng' is no unit
\* of the pattern)
MixedUnitIssues(lines) ==
    LET units == {lines[i].unit : i \in {j \in 1..Len(lines) : lines[j].val > 0}}
    IN  IF ("mg" \in units /\ "ug" \in units) \/ ("mg" \in units /\ "ng" \in units)
        THEN 1 ELSE 0

\* len(numeric_issues)
NumericIssues(lines) == RoundNumberIssues(lines) + MixedUnitIssues(lines)

\* _verify_claim_against_sources, lines 422-434
StatusConfidence(status) ==
    CASE status = "SUPPORTED" -> 90
      [] status = "PARTIAL" -> 60
      [] status = "NOT_FOUND" -> 20
      [] OTHER -> 50

\* lines 441-447: a stated confidence within [0, 1] replaces the default
\* (stated = -1: the response states none)
StatedConfidence(status, stated) ==
    IF stated >= 0 /\ stated <= 100 THEN stated ELSE StatusConfidence(status)

\* the penalty without its floor
ClaimConfidenceWithoutFloor(type, status, stated) ==
    LET conf == StatedConfidence(status, stated)
    IN  IF type = "table_cell" /\ conf < 70 THEN conf - 10 ELSE conf

\* lines 450-453
ClaimConfidence(type, status, stated) ==
    LET conf == StatedConfidence(status, stated)
    IN  IF type = "table_cell" /\ conf < 70 THEN Max(20, conf - 10) ELSE conf

\* lines 116-121: the three counters after the loop over the claims
HighCount(confs) == Cardinality({i \in 1..Len(confs) : confs[i] >= 80})
MediumCount(confs) == Cardinality({i \in 1..Len(confs) : confs[i] < 80 /\ confs[i] >= 50})
LowCount(confs) == Cardinality({i \in 1..Len(confs) : confs[i] < 80 /\ confs[i] < 50})

\* the weights of lines 149-151, in hundredths
WeightHigh == 100
WeightMedium == 65
WeightLow == 30
\* the confidence without a claim (line 152) and without an LLM (line 88)
DefaultConfidence == 50
\* the threshold of 'verified' (line 190)
VerifiedThreshold == 70

\* a confidence num / (100 * den)
Ratio(num, den) == [num |-> num, den |-> den]

\* the mean with every weight 0.65
OverallConfidenceFlatWeights(confs, issues) ==
    IF Len(confs) + issues = 0 THEN Ratio(DefaultConfidence, 1)
    ELSE Ratio(WeightMedium * (Len(confs) + issues), Len(confs) + issues)

\* lines 147-153 and 170-179
OverallConfidence(confs, issues) ==
    IF issues > 0
    THEN Ratio(HighCount(confs) * WeightHigh + MediumCount(confs) * WeightMedium
                 + (LowCount(confs) + issues) * WeightLow,
               Len(confs) + issues)
    ELSE IF Len(confs) > 0
         THEN Ratio(HighCount(confs) * WeightHigh + MediumCount(confs) * WeightMedium
                      + LowCount(confs) * WeightLow,
                    Len(confs))
         ELSE Ratio(DefaultConfidence, 1)

\* overall_confidence >= 0.7
AtLeast(ratio, hundredths) == ratio.num >= hundredths * ratio.den

\* a result whose total counts the claims alone
VerificationResultClaimsTotal(confs, lines) ==
    LET issues == NumericIssues(lines)
        overall == OverallConfidence(confs, issues)
    IN  [returned |-> TRUE,
         llm |-> TRUE,
         verified |-> AtLeast(overall, VerifiedThreshold),
         confidence |-> overall,
         high |-> HighCount(confs),
         medium |-> MediumCount(confs),
         low |-> LowCount(confs) + issues,
         total |-> Len(confs),
         issues |-> issues]

\* lines 189-204
VerificationResult(confs, lines) ==
    LET issues == NumericIssues(lines)
        overall == OverallConfidence(confs, issues)
    IN  [returned |-> TRUE,
         llm |-> TRUE,
         verified |-> AtLeast(overall, VerifiedThreshold),
         confidence |-> overall,
         high |-> HighCount(confs),
         medium |-> MediumCount(confs),
         low |-> LowCount(confs) + issues,
         total |-> Len(confs) + issues,
         issues |-> issues]

\* lines 84-91
NoLLMResult ==
    [returned |-> TRUE, llm |-> FALSE, verified |-> FALSE,
     confidence |-> Ratio(DefaultConfidence, 1)]

\* what the completion service answers about a claim
Statuses == {"SUPPORTED", "PARTIAL", "NOT_FOUND"}

InitVerify ==
    /\ vcontent \in SeqsUpTo(VLinePool, MaxContentLines)
    /\ vconfs = <<>>
    /\ vresult = NoResult
    /\ op = "none"
    /\ TablesIdle
    /\ ExtractIdle
    /\ ParserIdle
    /\ PipelineIdle

\* verify_generated_content with an LLM and an index: every claim verified by
\* _verify_claim_against_sources
VerifyGeneratedContent ==
    /\ op = "none"
    /\ \E answers \in [1..Len(ExtractClaims(vcontent)) -> Statuses] :
          vconfs' = [i \in 1..Len(ExtractClaims(vcontent)) |->
                        ClaimConfidence(ExtractClaims(vcontent)[i], answers[i], -1)]
    /\ vresult' = VerificationResult(vconfs', vcontent)
    /\ op' = "verify"
    /\ UNCHANGED <<vcontent, tblVars, extVars, parVars, pipelineVars>>

\* verify_generated_content with an LLM and no index: _verify_claim_with_llm
VerifyWithoutIndex ==
    /\ op = "none"
    /\ vconfs' = [i \in 1..Len(ExtractClaims(vcontent)) |-> DefaultConfidence]
    /\ vresult' = VerificationResult(vconfs', vcontent)
    /\ op' = "verify_llm_only"
    /\ UNCHANGED <<vcontent, tblVars, extVars, parVars, pipelineVars>>

\* verify_generated_content without an LLM
VerifyWithoutLLM ==
    /\ op = "none"
    /\ vconfs' = <<>>
    /\ vresult' = NoLLMResult
    /\ op' = "verify_no_llm"
    /\ UNCHANGED <<vcontent, tblVars, extVars, parVars, pipelineVars>>

NextVerify ==
    \/ VerifyGeneratedContent
    \/ VerifyWithoutIndex
    \/ VerifyWithoutLLM

SpecVerify == InitVerify /\ [][NextVerify]_vars

-----------------------------------------------------------------------------
(* Properties of the verification aggregate *)

\* the confidence of a result equals num / (100 * den)
ConfidenceIs(result, num, den) ==
    result.confidence.num * den = num * result.confidence.den

\* C6 (as stated): the overall confidence verify_generated_content returns is
\* (1.0 * high + 0.65 * medium + 0.3 * low) / number of claims, over the
\* verified claims alone, and 0.5 when there is no claim.
C6_MeanOverClaims ==
    vresult.returned =>
        IF Len(vconfs) = 0
        THEN ConfidenceIs(vresult, 50, 1)
        ELSE ConfidenceIs(vresult,
                          100 * HighCount(vconfs) + 65 * MediumCount(vconfs)
                            + 30 * LowCount(vconfs),
                          Len(vconfs))

\* C6 (amended): every numeric-precision finding counts as one more low item
\* in the numerator and the denominator: the confidence is
\* (1.0 * high + 0.65 * medium + 0.3 * (low + k)) / (claims + k) for k
\* findings, 0.5 when there is neither a claim nor a finding or no LLM; for
\* the confidences 0.9, 0.9, 0.6, 0.2 and no finding it is 2.95 / 4 = 0.7375.
C6_MeanOverClaimsAndFindings ==
    vresult.returned =>
        LET k == IF vresult.llm THEN NumericIssues(vcontent) ELSE 0
            n == Len(vconfs)
        IN  /\ n + k = 0 => ConfidenceIs(vresult, 50, 1)
            /\ n + k > 0 =>
                 ConfidenceIs(vresult,
                              100 * Cardinality({i \in 1..n : vconfs[i] >= 80})
                                + 65 * Cardinality({i \in 1..n : vconfs[i] >= 50 /\ vconfs[i] < 80})
                                + 30 * (Cardinality({i \in 1..n : vconfs[i] < 50}) + k),
                              n + k)
            /\ (vconfs = <<90, 90, 60, 20>> /\ k = 0) => ConfidenceIs(vresult, 7375, 100)

\* four claims verified at 0.9, 0.9, 0.6 and 0.2 and one numeric finding:
\* (2 + 0.65 + 0.3 * 2) / 5 = 0.65
C6_Witness ==
    /\ op = "verify"
    /\ vconfs = <<90, 90, 60, 20>>
    /\ NumericIssues(vcontent) = 1
    /\ ConfidenceIs(vresult, 65, 1)
    /\ ~vresult.verified

-----------------------------------------------------------------------------
(* DataExtractor: merging and deduplicating the retrieved chunks *)

\* A chunk text is its first 100 characters and what follows them.  A result
\* of the vector store is a text with its similarity score.
MaxHits == 3
\* queries[:5]
MaxQueries == 5

tHead1 == [head |-> "h1", rest |-> ""]
tHead1Longer == [head |-> "h1", rest |-> "x"]
tHead2 == [head |-> "h2", rest |-> ""]

ChunkTexts == {tHead1, tHead1Longer, tHead2}
Scores == {1, 2}
SearchResults == [text : ChunkTexts, score : Scores]

\* result['text'][:100]
TextId(result) == result.text.head

\* lines 43-48: the results of the queries in order, a text already seen left out
RECURSIVE MergeQueryResults(_, _, _, _)
MergeQueryResults(perQuery, q, i, all) ==
    IF q > Len(perQuery) THEN all
    ELSE IF i > Len(perQuery[q]) THEN MergeQueryResults(perQuery, q + 1, 1, all)
    ELSE IF \E k \in 1..Len(all) : all[k].text = perQuery[q][i].text
         THEN MergeQueryResults(perQuery, q, i + 1, all)
         ELSE MergeQueryResults(perQuery, q, i + 1, Append(all, perQuery[q][i]))

\* lines 112-116: the dictionary 'seen', as the sequence of its values in
\* insertion order; a result replaces the one of its id when its score is
\* strictly higher
RECURSIVE SeenById(_, _, _)
SeenById(results, i, seen) ==
    IF i > Len(results) THEN seen
    ELSE LET r == results[i]
             at == {k \in 1..Len(seen) : TextId(seen[k]) = TextId(r)}
         IN  IF at = {}
             THEN SeenById(results, i + 1, Append(seen, r))
             ELSE LET k == CHOOSE x \in at : TRUE
                  IN  IF r.score > seen[k].score
                      THEN SeenById(results, i + 1, [seen EXCEPT ![k] = r])
                      ELSE SeenById(results, i + 1, seen)

\* insertion of r behind the results scoring at least as much
InsertByScore(sorted, r) ==
    LET before == Cardinality({k \in 1..Len(sorted) : sorted[k].score >= r.score})
    IN  SubSeq(sorted, 1, before) \o <<r>> \o SubSeq(sorted, before + 1, Len(sorted))

\* sorted(seen.values(), key=score, reverse=True): stable, by descending score
RECURSIVE SortByScore(_, _, _)
SortByScore(results, i, sorted) ==
    IF i > Len(results) THEN sorted
    ELSE SortByScore(results, i + 1, InsertByScore(sorted, results[i]))

\* _deduplicate_results
DeduplicateResults(results) == SortByScore(SeenById(results, 1, <<>>), 1, <<>>)

\* the retrieval of extract_section_data, lines 39-52
RetrievedResults(perQuery) ==
    DeduplicateResults(MergeQueryResults(perQuery, 1, 1, <<>>))

\* A retrieval: every hit with the mark of the first hit of a query.  The
\* vector store returns the hits of a query by descending score.
MarkedHits == [result : SearchResults, first : BOOLEAN]

WellFormedHits(flat) ==
    /\ flat[1].first
    /\ Cardinality({i \in 1..Len(flat) : flat[i].first}) <= MaxQueries
    /\ \A i \in 2..Len(flat) :
          ~flat[i].first => flat[i - 1].result.score >= flat[i].result.score

\* the hits of each query, in the order of the queries
RECURSIVE PerQuery(_, _, _)
PerQuery(flat, i, lists) ==
    IF i > Len(flat) THEN lists
    ELSE IF flat[i].first
         THEN PerQuery(flat, i + 1, Append(lists, <<flat[i].result>>))
         ELSE PerQuery(flat, i + 1,
                       [lists EXCEPT ![Len(lists)] = Append(@, flat[i].result)])

Retrievals ==
    {PerQuery(flat, 1, <<>>) : flat \in {f \in SeqsUpTo(MarkedHits, MaxHits) : WellFormedHits(f)}}

InitExtract ==
    /\ hits \in Retrievals
    /\ relevant = <<>>
    /\ op = "none"
    /\ TablesIdle
    /\ VerifyIdle
    /\ ParserIdle
    /\ PipelineIdle

\* extract_section_data, up to the deduplicated all_results
ExtractSectionData ==
    /\ op = "none"
    /\ relevant' = RetrievedResults(hits)
    /\ op' = "extract"
    /\ UNCHANGED <<hits, tblVars, verVars, parVars, pipelineVars>>

NextExtract == ExtractSectionData

SpecExtract == InitExtract /\ [][NextExtract]_vars

\* every hit of the retrieval
AllHits == UNION {{hits[q][i] : i \in 1..Len(hits[q])} : q \in 1..Len(hits)}

\* C7: after extract_section_data has merged the results of all its queries,
\* the retrieved results sharing their first 100 characters are one result,
\* and it carries the highest score among them.
C7_KeepsHighestScore ==
    op = "extract" =>
        \A id \in {TextId(h) : h \in AllHits} :
            LET kept == {k \in 1..Len(relevant) : TextId(relevant[k]) = id}
            IN  /\ Cardinality(kept) = 1
                /\ \A k \in kept : \A h \in AllHits :
                      TextId(h) = id => relevant[k].score >= h.score

-----------------------------------------------------------------------------
(* TemplateParser: characters and text *)

\* A line of a template file is the sequence of its characters; the content
\* of a section is the sequence of its characters, "\n" between its lines.

IsDigit(ch) == ch \in {"0", "1", "2", "3", "4", "5", "6", "7", "8", "9"}

IsUpperLetter(ch) ==
    ch \in {"A", "B", "C", "D", "E", "F", "G", "H", "I", "J", "K", "L", "M",
            "N", "O", "P", "Q", "R", "S", "T", "U", "V", "W", "X", "Y", "Z"}

IsLowerLetter(ch) ==
    ch \in {"a", "b", "c", "d", "e", "f", "g", "h", "i", "j", "k", "l", "m",
            "n", "o", "p", "q", "r", "s", "t", "u", "v", "w", "x", "y", "z"}

\* \w
IsWordChar(ch) == IsDigit(ch) \/ IsUpperLetter(ch) \/ IsLowerLetter(ch) \/ ch = "_"

\* \s
IsSpace(ch) == ch \in {" ", "\n", "\t"}

\* str.lower()
LowerText(s) == [i \in 1..Len(s) |-> Lower(s[i])]

RECURSIVE LStripText(_)
LStripText(s) ==
    IF s # <<>> /\ IsSpace(Head(s)) THEN LStripText(Tail(s)) ELSE s

RECURSIVE RStripText(_)
RStripText(s) ==
    IF s # <<>> /\ IsSpace(s[Len(s)]) THEN RStripText(SubSeq(s, 1, Len(s) - 1)) ELSE s

\* str.strip()
StripText(s) == RStripText(LStripText(s))

\* str.startswith, str.endswith, 'sub in s'
StartsWith(s, p) == Len(s) >= Len(p) /\ SubSeq(s, 1, Len(p)) = p
EndsWith(s, p) == Len(s) >= Len(p) /\ SubSeq(s, Len(s) - Len(p) + 1, Len(s)) = p
Contains(s, sub) ==
    \E i \in 1..(Len(s) - Len(sub) + 1) : SubSeq(s, i, i + Len(sub) - 1) = sub

\* any(word in s for word in words)
HasAny(s, words) == \E w \in words : Contains(s, w)

Min(a, b) == IF a <= b THEN a ELSE b

\* sep.join(parts)
RECURSIVE JoinWith(_, _)
JoinWith(parts, sep) ==
    IF parts = <<>> THEN <<>>
    ELSE IF Len(parts) = 1 THEN parts[1]
    ELSE parts[1] \o sep \o JoinWith(Tail(parts), sep)

\* the keyword lists of _is_valid_section_header (lines 321-327, 354-358) and
\* of _detect_alternative_header (lines 404-408)
ScientificKeywords ==
    {<<"i", "n", "t", "r", "o", "d", "u", "c", "t", "i", "o", "n">>, <<"m", "e", "t", "h", "o", "d">>, <<"r", "e", "s", "u", "l", "t">>, <<"d", "i", "s", "c", "u", "s", "s", "i", "o", "n">>, <<"c", "o", "n", "c", "l", "u", "s", "i", "o", "n">>,
     <<"a", "b", "s", "t", "r", "a", "c", "t">>, <<"b", "a", "c", "k", "g", "r", "o", "u", "n", "d">>, <<"o", "b", "j", "e", "c", "t", "i", "v", "e">>, <<"a", "i", "m">>, <<"p", "u", "r", "p", "o", "s", "e">>,
     <<"m", "a", "t", "e", "r", "i", "a", "l", "s">>, <<"p", "r", "o", "c", "e", "d", "u", "r", "e">>, <<"e", "x", "p", "e", "r", "i", "m", "e", "n", "t">>, <<"a", "n", "a", "l", "y", "s", "i", "s">>, <<"d", "a", "t", "a">>,
     <<"f", "i", "n", "d", "i", "n", "g">>, <<"o", "b", "s", "e", "r", "v", "a", "t", "i", "o", "n">>, <<"s", "u", "m", "m", "a", "r", "y">>, <<"r", "e", "f", "e", "r", "e", "n", "c", "e">>, <<"c", "i", "t", "a", "t", "i", "o", "n">>,
     <<"a", "p", "p", "e", "n", "d", "i", "x">>, <<"a", "c", "k", "n", "o", "w", "l", "e", "d", "g", "m", "e", "n", "t">>, <<"o", "v", "e", "r", "v", "i", "e", "w">>}

ProductExemptKeywords ==
    {<<"i", "n", "t", "r", "o", "d", "u", "c", "t", "i", "o", "n">>, <<"m", "e", "t", "h", "o", "d">>, <<"r", "e", "s", "u", "l", "t">>, <<"d", "i", "s", "c", "u", "s", "s", "i", "o", "n">>, <<"c", "o", "n", "c", "l", "u", "s", "i", "o", "n">>,
     <<"a", "b", "s", "t", "r", "a", "c", "t">>, <<"b", "a", "c", "k", "g", "r", "o", "u", "n", "d">>, <<"o", "b", "j", "e", "c", "t", "i", "v", "e">>, <<"m", "a", "t", "e", "r", "i", "a", "l", "s">>, <<"p", "r", "o", "c", "e", "d", "u", "r", "e">>,
     <<"e", "x", "p", "e", "r", "i", "m", "e", "n", "t">>, <<"a", "n", "a", "l", "y", "s", "i", "s">>, <<"f", "i", "n", "d", "i", "n", "g">>, <<"s", "u", "m", "m", "a", "r", "y">>}

AlternativeHeaderKeywords == ProductExemptKeywords \cup {<<"r", "e", "f", "e", "r", "e", "n", "c", "e">>}

\* line 333
CommonSuppliers ==
    {<<"v", "w", "r">>, <<"f", "i", "s", "h", "e", "r">>, <<"s", "i", "g", "m", "a">>, <<"t", "h", "e", "r", "m", "o">>, <<"m", "i", "l", "l", "i", "p", "o", "r", "e">>, <<"c", "o", "r", "n", "i", "n", "g">>, <<"f", "a", "l", "c", "o", "n">>}

\* line 339
ProductIndicators ==
    {<<"m", "l">>, <<"k", "g">>, <<"l">>, <<"g">>, <<"m", "g">>, <<"m", "m">>, <<"c", "m">>, <<"u", "m">>, <<"n", "m">>}

\* the units of the pattern of line 349 ("deg" is the degree sign); those of
\* line 350 are among them
QuantityUnits ==
    ProductIndicators \cup {<<"deg", "c">>, <<"c", "e", "l", "s", "i", "u", "s">>}

-----------------------------------------------------------------------------
(* TemplateParser: _is_valid_section_header *)

\* section_name.replace('.', '').replace(',', '').strip().isdigit()
NumericOnly(name) ==
    LET t == StripText(SelectSeq(name, LAMBDA ch : ch \notin {".", ","}))
    IN  t # <<>> /\ \A i \in 1..Len(t) : IsDigit(t[i])

\* re.match(r'^[A-Z0-9\-\s]{2,20}$', section_name)
CodeLike(name) ==
    /\ Len(name) >= 2
    /\ Len(name) <= 20
    /\ \A i \in 1..Len(name) :
          IsUpperLetter(name[i]) \/ IsDigit(name[i]) \/ name[i] = "-" \/ IsSpace(name[i])

\* re.search(r'\d{n,}', line)
HasDigitRun(s, n) ==
    \E i \in 1..(Len(s) - n + 1) : \A k \in i..(i + n - 1) : IsDigit(s[k])

\* lines 336-337: the non-empty ones of the four lines after the header
NextLines(lines, i) ==
    SelectSeq([k \in 1..(Min(i + 4, Len(lines)) - i) |-> StripText(lines[i + k])],
              LAMBDA l : l # <<>>)

\* lines 338-344: the lines after a supplier name look like a product list
ProductListAfter(lines, i) ==
    LET next == NextLines(lines, i)
        three == SubSeq(next, 1, Min(3, Len(next)))
    IN  /\ next # <<>>
        /\ \E k \in 1..Len(three) :
              HasAny(LowerText(three[k]), ProductIndicators) \/ HasDigitRun(three[k], 4)

\* re.search(r'\b\d+\s*(ml|kg|l|g|mg|mm|cm|um|nm|°c|celsius)\b', section_lower)
HasQuantityOf(s, units) ==
    /\ \E x \in 1..Len(s) : IsDigit(s[x])
    /\ \E i \in 1..Len(s) : \E j \in i..Len(s) : \E k \in (j + 1)..Len(s) :
          /\ \A x \in i..j : IsDigit(s[x])
          /\ i = 1 \/ ~IsWordChar(s[i - 1])
          /\ \A x \in (j + 1)..(k - 1) : IsSpace(s[x])
          /\ \E u \in units :
                /\ k + Len(u) - 1 <= Len(s)
                /\ SubSeq(s, k, k + Len(u) - 1) = u
                /\ k + Len(u) - 1 = Len(s) \/ ~IsWordChar(s[k + Len(u)])

HasQuantity(s) == HasQuantityOf(s, QuantityUnits)

\* lines 362-367: a line with text, no header and no table row, among the
\* nine lines after the header
HasContentAfter(lines, i) ==
    \E k \in (i + 1)..Min(i + 9, Len(lines)) :
        LET l == StripText(lines[k])
        IN  l # <<>> /\ ~StartsWith(l, <<"#">>) /\ ~Contains(l, <<"|">>)

\* _is_valid_section_header(section_name, all_lines, current_index)
IsValidSectionHeader(name, lines, i) ==
    LET lower == StripText(LowerText(name))
    IN  /\ ~Contains(name, <<"|">>)
        /\ ~(Len(name) < 3 \/ NumericOnly(name))
        /\ ~(CodeLike(name) /\ ~HasAny(lower, ScientificKeywords))
        /\ ~(HasAny(lower, CommonSuppliers) /\ ProductListAfter(lines, i))
        /\ ~(/\ EndsWith(lower, <<",">>) \/ HasQuantity(lower)
             /\ ~HasAny(lower, ProductExemptKeywords))
        /\ HasContentAfter(lines, i)

-----------------------------------------------------------------------------
(* TemplateParser: _detect_alternative_header *)

\* str.upper() of a character
Upper(ch) ==
    IF IsLowerLetter(ch)
    THEN CHOOSE u \in {"A", "B", "C", "D", "E", "F", "G", "H", "I", "J", "K", "L", "M",
                       "N", "O", "P", "Q", "R", "S", "T", "U", "V", "W", "X", "Y", "Z"} :
             Lower(u) = ch
    ELSE ch

IsCased(ch) == IsUpperLetter(ch) \/ IsLowerLetter(ch)

\* str.isupper(): a cased character, and no lowercase one
IsUpperText(s) ==
    /\ \E i \in 1..Len(s) : IsUpperLetter(s[i])
    /\ \A i \in 1..Len(s) : ~IsLowerLetter(s[i])

\* str.istitle(): uppercase letters only after uncased characters, lowercase
\* letters only after cased ones, and a cased character
IsTitleText(s) ==
    /\ \E i \in 1..Len(s) : IsCased(s[i])
    /\ \A i \in 1..Len(s) :
          /\ IsUpperLetter(s[i]) => (i = 1 \/ ~IsCased(s[i - 1]))
          /\ IsLowerLetter(s[i]) => (i > 1 /\ IsCased(s[i - 1]))

\* str.title()
TitleText(s) ==
    [i \in 1..Len(s) |->
        IF i = 1 \/ ~IsCased(s[i - 1]) THEN Upper(s[i]) ELSE Lower(s[i])]

\* len(s.split())
WordCount(s) ==
    Cardinality({i \in 1..Len(s) : ~IsSpace(s[i]) /\ (i = 1 \/ IsSpace(s[i - 1]))})

\* the keywords and the units of the skip condition, lines 387-390
CatalogExemptKeywords ==
    {<<"i", "n", "t", "r", "o", "d", "u", "c", "t", "i", "o", "n">>, <<"m", "e", "t", "h", "o", "d">>, <<"r", "e", "s", "u", "l", "t">>, <<"d", "i", "s", "c", "u", "s", "s", "i", "o", "n">>, <<"c", "o", "n", "c", "l", "u", "s", "i", "o", "n">>, <<"a", "b", "s", "t", "r", "a", "c", "t">>}

SizeUnits == {<<"m", "l">>, <<"k", "g">>, <<"l">>, <<"g">>, <<"m", "g">>, <<"m", "m">>, <<"c", "m">>}

\* line 394
AlternativeSuppliers == CommonSuppliers \cup {<<"b", "d">>, <<"n", "u", "n", "c">>}

\* lines 385-391: a catalog number, a size, a short item ending with a comma
\* or a code
ProductOrCatalogItem(l) ==
    \/ HasDigitRun(l, 6)
    \/ HasQuantityOf(LowerText(l), SizeUnits)
    \/ EndsWith(LowerText(l), <<",">>) /\ Len(l) < 60
    \/ /\ Len(l) >= 2
       /\ Len(l) <= 15
       /\ \A i \in 1..Len(l) :
             IsUpperLetter(l[i]) \/ IsDigit(l[i]) \/ l[i] = "-" \/ IsSpace(l[i])
       /\ ~HasAny(LowerText(l), CatalogExemptKeywords)

\* the guard that lets every line pass
PipeFreeAlways(l) == TRUE

\* '|' not in line_stripped (lines 401, 416, 436)
PipeFree(l) == ~Contains(l, <<"|">>)

\* lines 398-409: an all-caps line of 3 to 12 words with a keyword
CapsHeader(l) ==
    IF /\ IsUpperText(l)
       /\ WordCount(l) >= 3
       /\ WordCount(l) <= 12
       /\ Len(l) < 100
       /\ PipeFree(l)
       /\ HasAny(LowerText(l), AlternativeHeaderKeywords)
    THEN << [name |-> TitleText(l), level |-> 1] >>
    ELSE <<>>

\* re.match(r'^(\d+\.?\s+)([A-Z][^\.]{10,})', l): the position of the capital
\* letter of group 2, 0 without a match
NumberedStart(l) ==
    LET digits == {n \in 1..Len(l) : \A x \in 1..n : IsDigit(l[x])}
        starts == {p \in 3..Len(l) :
                     /\ IsUpperLetter(l[p])
                     /\ IsSpace(l[p - 1])
                     /\ \E n \in digits : \E d \in {0, 1} :
                           /\ d = 1 => l[n + 1] = "."
                           /\ n + d < p - 1
                           /\ \A x \in (n + d + 1)..(p - 1) : IsSpace(l[x])
                     /\ Len(l) >= p + 10
                     /\ \A x \in (p + 1)..(p + 10) : l[x] # "."}
    IN  IF starts = {} THEN 0 ELSE CHOOSE p \in starts : TRUE

\* numbered_match.group(2).strip(): up to the first '.' after the capital
NumberedName(l) ==
    LET p == NumberedStart(l)
        dots == {x \in (p + 1)..Len(l) : l[x] = "."}
        last == IF dots = {} THEN Len(l)
                ELSE (CHOOSE x \in dots : \A y \in dots : x <= y) - 1
    IN  StripText(SubSeq(l, p, last))

\* lines 414-430: a numbered line with a keyword or four words
NumberedHeader(l) ==
    IF /\ NumberedStart(l) > 0
       /\ PipeFree(l)
       /\ Len(NumberedName(l)) > 10
       /\ \/ HasAny(LowerText(NumberedName(l)), AlternativeHeaderKeywords)
          \/ WordCount(NumberedName(l)) >= 4
    THEN << [name |-> NumberedName(l), level |-> 1] >>
    ELSE <<>>

\* lines 446-451: a line with '|' among the three lines before and the two
\* lines after
InTableContext(lines, i) ==
    \E k \in Max(1, i - 3)..Min(i + 2, Len(lines)) :
        k # i /\ Contains(lines[k], <<"|">>)

\* lines 434-454: a standalone title line with a keyword
TitleHeader(l, lines, i) ==
    IF /\ IsTitleText(l) \/ (IsUpperLetter(l[1]) /\ ~IsUpperText(l))
       /\ WordCount(l) >= 2
       /\ WordCount(l) <= 8
       /\ PipeFree(l)
       /\ Len(l) < 80
       /\ HasAny(LowerText(l), AlternativeHeaderKeywords)
       /\ ~InTableContext(lines, i)
    THEN << [name |-> l, level |-> 1] >>
    ELSE <<>>

\* _detect_alternative_header(line, all_lines, current_index): the header in
\* a sequence that is empty for None
DetectAlternativeHeader(line, lines, i) ==
    LET l == StripText(line)
    IN  IF l = <<>> THEN <<>>
        ELSE IF ProductOrCatalogItem(l) THEN <<>>
        ELSE IF LowerText(l) \in AlternativeSuppliers THEN <<>>
        ELSE IF CapsHeader(l) # <<>> THEN CapsHeader(l)
        ELSE IF NumberedHeader(l) # <<>> THEN NumberedHeader(l)
        ELSE TitleHeader(l, lines, i)

-----------------------------------------------------------------------------
(* TemplateParser: _parse_markdown_template and _save_section *)

\* lines 213-217: is_table_row (the pattern of line 216 implies a leading '|')
TemplateTableRow(line) ==
    /\ Contains(line, <<"|">>)
    /\ StartsWith(StripText(line), <<"|">>) \/ EndsWith(StripText(line), <<"|">>)

\* line 218: is_table_separator
TemplateTableSeparator(line) ==
    LET l == StripText(line)
    IN  \/ /\ Len(l) >= 3
           /\ l[1] = "|"
           /\ l[Len(l)] = "|"
           /\ \A i \in 1..Len(l) : IsSpace(l[i]) \/ l[i] \in {"-", ":", "|"}
        \/ Contains(l, <<"-", "-", "-">>)

\* the number of '#' the line starts with
RECURSIVE LeadingHashes(_)
LeadingHashes(line) ==
    IF line # <<>> /\ Head(line) = "#" THEN 1 + LeadingHashes(Tail(line)) ELSE 0

\* re.match(r'^(#{1,6})\s+(.+)$', line)
HeaderMatches(line) ==
    LET h == LeadingHashes(line)
    IN  h >= 1 /\ h <= 6 /\ Len(line) >= h + 2 /\ IsSpace(line[h + 1])

\* len(header_match.group(1))
HeaderLevel(line) == LeadingHashes(line)

\* header_match.group(2).strip()
HeaderName(line) ==
    StripText(SubSeq(line, LeadingHashes(line) + 1, Len(line)))

\* _detect_alternative_header can return a header only for a line with one of
\* its keywords (lines 409, 429, 447) or for a numbered line (line 415)
MayBeAlternativeHeader(line) ==
    LET l == StripText(line)
    IN  l # <<>> /\ (HasAny(LowerText(l), AlternativeHeaderKeywords) \/ IsDigit(l[1]))

\* '\n'.join(section_content).strip()
SectionContent(contentLines) == StripText(JoinWith(contentLines, <<"\n">>))

\* The state of the loop of _parse_markdown_template.  The lists section_path
\* is bound to are objects: 'paths' holds every list created, 'path' is the
\* index of the one section_path names, and a saved section holds the index
\* of the list it was saved with ('path': section_path, line 489).  'headers'
\* lists the lines that started a section.
ParseStart ==
    [current |-> FALSE, content |-> <<>>, paths |-> << <<>> >>, path |-> 1,
     inTable |-> FALSE, saved |-> <<>>, headers |-> <<>>]

\* _save_section(section_path, content), lines 484-494
SaveSection(st) ==
    LET p == st.paths[st.path]
    IN  [st EXCEPT !.saved =
            Append(@, [key |-> JoinWith(p, <<"/">>),
                       name |-> p[Len(p)],
                       path |-> st.path,
                       level |-> Len(p),
                       content |-> SectionContent(st.content)])]

\* lines 243-244: if current_section: self._save_section(...)
SavePrevious(st) == IF st.current THEN SaveSection(st) ELSE st

\* lines 250-256: a header not deeper than the path binds section_path to a
\* new list, lines 253-256 append the name to the list section_path names
StartSection(st, i, level, name) ==
    LET cut == level <= Len(st.paths[st.path])
        paths == IF cut
                 THEN Append(st.paths, SubSeq(st.paths[st.path], 1, level - 1))
                 ELSE st.paths
        at == IF cut THEN Len(paths) ELSE st.path
    IN  [st EXCEPT !.paths = [paths EXCEPT ![at] = Append(@, name)],
                   !.path = at,
                   !.current = TRUE,
                   !.content = <<>>,
                   !.headers = Append(@, i)]

\* section_content.append(line), under 'if current_section'
KeepLine(st, line) ==
    IF st.current THEN [st EXCEPT !.content = Append(@, line)] ELSE st

\* the loop of lines 208-293 and the save of lines 295-297
RECURSIVE ParseLines(_, _, _)
ParseLines(lines, i, st) ==
    IF i > Len(lines) THEN SavePrevious(st)
    ELSE LET line == lines[i]
         IN  IF TemplateTableRow(line) \/ TemplateTableSeparator(line)
             THEN ParseLines(lines, i + 1, KeepLine([st EXCEPT !.inTable = TRUE], line))
             ELSE IF st.inTable /\ StripText(line) = <<>>
             THEN ParseLines(lines, i + 1, KeepLine(st, line))
             ELSE LET out1 == [st EXCEPT !.inTable = FALSE]
                      alt == DetectAlternativeHeader(line, lines, i)
                  IN  IF HeaderMatches(line)
                      THEN IF IsValidSectionHeader(HeaderName(line), lines, i)
                           THEN ParseLines(lines, i + 1,
                                           StartSection(SavePrevious(out1), i,
                                                        HeaderLevel(line), HeaderName(line)))
                           ELSE ParseLines(lines, i + 1, KeepLine(out1, line))
                      ELSE IF alt # <<>> /\ IsValidSectionHeader(alt[1].name, lines, i)
                           THEN ParseLines(lines, i + 1,
                                           StartSection(SavePrevious(out1), i,
                                                        alt[1].level, alt[1].name))
                           ELSE ParseLines(lines, i + 1, KeepLine(out1, line))

\* the value a saved section has once the parse has returned: its 'path' is
\* the list it names, with everything appended to that list since
StoredSection(st, k) ==
    [key |-> st.saved[k].key,
     name |-> st.saved[k].name,
     path |-> st.paths[st.saved[k].path],
     level |-> st.saved[k].level,
     content |-> st.saved[k].content]

\* self.sections[section_key] = section_info (line 498)
PutSection(dict, section) ==
    IF \E k \in 1..Len(dict) : dict[k].key = section.key
    THEN [k \in 1..Len(dict) |-> IF dict[k].key = section.key THEN section ELSE dict[k]]
    ELSE Append(dict, section)

RECURSIVE PutSections(_, _, _)
PutSections(dict, st, k) ==
    IF k > Len(st.saved) THEN dict
    ELSE PutSections(PutSection(dict, StoredSection(st, k)), st, k + 1)

\* _parse_markdown_template(content) on a parser holding the sections 'dict'
ParseMarkdownTemplate(dict, lines) ==
    PutSections(dict, ParseLines(lines, 1, ParseStart), 1)

-----------------------------------------------------------------------------
(* TemplateParser: _extract_toc_and_glossary *)

\* lines 634-639
TocHeading(line) ==
    LET l == StripText(LowerText(line))
    IN  \/ Contains(l, <<"t", "a", "b", "l", "e", " ", "o", "f", " ", "c", "o", "n", "t", "e", "n", "t", "s">>)
        \/ l = <<"c", "o", "n", "t", "e", "n", "t", "s">>
        \/ l = <<"t", "o", "c">>
        \/ StartsWith(l, <<"#">>) /\ Contains(l, <<"c", "o", "n", "t", "e", "n", "t">>)

\* lines 654-657
GlossaryHeading(line) ==
    LET l == StripText(LowerText(line))
    IN  \/ Contains(l, <<"g", "l", "o", "s", "s", "a", "r", "y">>) /\ StartsWith(StripText(line), <<"#">>)
        \/ Contains(l, <<"d", "e", "f", "i", "n", "i", "t", "i", "o", "n">>) /\ Contains(l, <<"t", "e", "r", "m">>)

\* lines 642-650: the line that ends a table of contents started at line s
TocEnds(lines, s, i) ==
    IF StartsWith(StripText(lines[i]), <<"#">>)
    THEN LeadingHashes(lines[i]) = 1
    ELSE i > s + 50

\* lines[toc_start:toc_end], for a template without a glossary
TocLines(lines) ==
    LET starts == {i \in 1..Len(lines) : TocHeading(lines[i])}
    IN  IF starts = {} THEN <<>>
        ELSE LET s == CHOOSE i \in starts : \A j \in starts : i <= j
                 ends == {i \in (s + 1)..Len(lines) : TocEnds(lines, s, i)}
                 e == IF ends = {} THEN Min(s + 99, Len(lines))
                      ELSE (CHOOSE i \in ends : \A j \in ends : i <= j) - 1
             IN  SubSeq(lines, s, e)

\* len(original_line) - len(original_line.lstrip(' \t'))
RECURSIVE Indent(_)
Indent(line) ==
    IF line # <<>> /\ Head(line) \in {" ", "\t"} THEN 1 + Indent(Tail(line)) ELSE 0

\* [p.strip() for p in line.split('|') if p.strip()]
RECURSIVE PipeParts(_, _, _)
PipeParts(line, i, part) ==
    IF i > Len(line)
    THEN IF StripText(part) # <<>> THEN <<StripText(part)>> ELSE <<>>
    ELSE IF line[i] = "|"
         THEN (IF StripText(part) # <<>> THEN <<StripText(part)>> ELSE <<>>)
              \o PipeParts(line, i + 1, <<>>)
         ELSE PipeParts(line, i + 1, Append(part, line[i]))

\* the patterns of _parse_toc_lines that need a link, a number, a bullet or
\* a dotted leader (lines 689-742)
ListedTocLine(line) ==
    LET l == StripText(line)
    IN  l # <<>> /\ (Contains(l, <<"[">>) \/ IsDigit(l[1]) \/ l[1] \in {"*", "-", "+"})

\* lines 744-765: the entry of a table row or of a plain line
TocEntry(line) ==
    LET l == StripText(line)
        level == Max(1, (Indent(line) \div 2) + 1)
        parts == PipeParts(l, 1, <<>>)
    IN  IF l = <<>> \/ StartsWith(l, <<"#">>) THEN <<>>
        ELSE IF /\ Contains(l, <<"|">>)
                /\ Len(parts) >= 1
                /\ ~(\A k \in 1..Len(parts) : Contains(parts[k], <<"-", "-", "-">>))
        THEN << [name |-> parts[1], level |-> level] >>
        ELSE IF /\ Len(l) > 2
                /\ ~StartsWith(l, <<"-", "-", "-">>)
                /\ IsUpperLetter(l[1])
                /\ Len(l) < 100
        THEN << [name |-> l, level |-> level] >>
        ELSE <<>>

\* _parse_toc_lines: name and level of every entry
RECURSIVE ParseTocLines(_)
ParseTocLines(tocLines) ==
    IF tocLines = <<>> THEN <<>>
    ELSE TocEntry(Head(tocLines)) \o ParseTocLines(Tail(tocLines))

\* lines 663-668: toc_structure is assigned only when a heading was found
ExtractToc(old, lines) ==
    IF \E i \in 1..Len(lines) : TocHeading(lines[i])
    THEN ParseTocLines(TocLines(lines))
    ELSE old

-----------------------------------------------------------------------------
(* TemplateParser: get_sections, get_section, get_section_structure *)

\* list(self.sections.keys())
GetSections(dict) == [k \in 1..Len(dict) |-> dict[k].key]

\* the first section of the dictionary satisfying Test, in a sequence that
\* is empty without one
FirstSection(dict, Test(_)) ==
    LET at == {k \in 1..Len(dict) : Test(dict[k])}
    IN  IF at = {} THEN <<>>
        ELSE << dict[CHOOSE k \in at : \A j \in at : k <= j] >>

\* get_section(section_name)
GetSection(dict, name) ==
    LET exact == FirstSection(dict, LAMBDA sec : sec.key = name)
        partial == FirstSection(dict, LAMBDA sec :
                      \/ Contains(LowerText(sec.key), LowerText(name))
                      \/ Contains(LowerText(name), LowerText(sec.key)))
        byName == FirstSection(dict, LAMBDA sec : LowerText(sec.name) = LowerText(name))
    IN  IF exact # <<>> THEN exact
        ELSE IF partial # <<>> THEN partial
        ELSE byName

\* get_section_structure(section_name): {} without a section, else the
\* name, path, level and content_template of the section found
GetSectionStructure(dict, name) ==
    LET section == GetSection(dict, name)
    IN  IF section = <<>> THEN [found |-> FALSE]
        ELSE [found |-> TRUE,
              name |-> section[1].name,
              path |-> section[1].path,
              level |-> section[1].level,
              content_template |-> section[1].content]

-----------------------------------------------------------------------------
(* TemplateParser: templates, load_template and the lookups *)

MaxTemplateLines == 3
MaxReloadLines == 2

lAlpha == <<"#", " ", "A", "l", "p", "h", "a">>
lBeta == <<"#", "#", " ", "B", "e", "t", "a">>
lBody == <<"B", "o", "d", "y", " ", "t", "e", "x", "t">>
lRow == <<"|", " ", "a", " ", "|">>
lContents == <<"T", "a", "b", "l", "e", " ", "o", "f", " ", "C", "o", "n", "t", "e", "n", "t", "s">>

TemplateLinePool == {lAlpha, lBeta, lBody, lRow, lContents}

\* The lines of the templates start no glossary, are no alternative header
\* and no listed entry of a table of contents.
PlainLine(line) ==
    /\ ~GlossaryHeading(line)
    /\ HeaderMatches(line) \/ ~MayBeAlternativeHeader(line)
    /\ ~ListedTocLine(line)

PlainTemplates(n) ==
    {t \in SeqsUpTo(TemplateLinePool, n) : \A i \in 1..Len(t) : PlainLine(t[i])}

\* the names of the header lines of a template
HeaderNames(lines) ==
    {HeaderName(lines[i]) : i \in {j \in 1..Len(lines) : HeaderMatches(lines[j])}}

\* TemplateParser(): lines 19-25
InitParser ==
    /\ tcontent = <<>>
    /\ sections = <<>>
    /\ toc = <<>>
    /\ glossary = <<>>
    /\ lookup = NoResult
    /\ op = "none"
    /\ TablesIdle
    /\ VerifyIdle
    /\ ExtractIdle
    /\ PipelineIdle

\* load_template(template_path), lines 57-62, for the content read
LoadContent(lines) ==
    /\ tcontent' = lines
    /\ toc' = ExtractToc(toc, lines)
    /\ glossary' = glossary   \* no line starts a glossary
    /\ sections' = ParseMarkdownTemplate(sections, lines)
    /\ lookup' = NoResult
    /\ UNCHANGED <<tblVars, verVars, extVars, pipelineVars>>

\* the first load_template of the parser
LoadTemplate ==
    /\ op = "none"
    /\ \E t \in PlainTemplates(MaxTemplateLines) : LoadContent(t)
    /\ op' = "load"

\* load_template called again on the same parser
LoadTemplateAgain ==
    /\ op = "load"
    /\ \E t \in PlainTemplates(MaxReloadLines) : LoadContent(t)
    /\ op' = "reload"

\* get_section_structure(section_name) for a header of the template
LookUpSectionStructure ==
    /\ op \in {"load", "reload"}
    /\ lookup = NoResult
    /\ \E name \in HeaderNames(tcontent) :
          lookup' = [returned |-> TRUE, name |-> name,
                     structure |-> GetSectionStructure(sections, name)]
    /\ UNCHANGED <<op, tcontent, sections, toc, glossary, tblVars, verVars, extVars, pipelineVars>>

NextParser ==
    \/ LoadTemplate
    \/ LoadTemplateAgain
    \/ LookUpSectionStructure

SpecParser == InitParser /\ [][NextParser]_vars

\* what a parser just constructed holds after loading the content
FreshSections(lines) == ParseMarkdownTemplate(<<>>, lines)
FreshToc(lines) == ExtractToc(<<>>, lines)

\* C8: after parsing a template, every stored section has a non-empty path
\* whose last element is the section's name and whose length is the section's
\* level, a parent section after one of its subsections was parsed included.
C8_PathEndsWithNameAtLevel ==
    op \in {"load", "reload"} =>
        \A k \in 1..Len(sections) :
            /\ sections[k].path # <<>>
            /\ sections[k].path[Len(sections[k].path)] = sections[k].name
            /\ Len(sections[k].path) = sections[k].level

\* C9: after load_template is called again on the same parser, get_sections()
\* is exactly the sections of the template parsed last, and no entry of the
\* table of contents of the earlier parse remains.
C9_ReparsingReplaces ==
    op = "reload" =>
        /\ GetSections(sections) = GetSections(FreshSections(tcontent))
        /\ toc = FreshToc(tcontent)

-----------------------------------------------------------------------------
(* TemplateParser: a level-1 header followed by a level-2 header *)

nAlpha == <<"A", "l", "p", "h", "a">>
nBeta == <<"B", "e", "t", "a">>
nAlphaBeta == <<"A", "l", "p", "h", "a", " ", "B", "e", "t", "a">>
nLowerAlpha == <<"a", "l", "p", "h", "a">>
nShort == <<"Q", "C">>
nCode == <<"D", "N", "A", "-", "2">>
nCapsKeyword == <<"R", "E", "S", "U", "L", "T", "S">>
nQuantity == <<"B", "u", "f", "f", "e", "r", " ", "5", "0", " ", "m", "l">>

SectionNames ==
    {nAlpha, nBeta, nAlphaBeta, nLowerAlpha, nShort, nCode, nCapsKeyword, nQuantity}

\* '# A', '## B', each with or without a line of text under it
HeaderPair(a, bodyA, b, bodyB) ==
    <<<<"#", " ">> \o a>> \o (IF bodyA THEN <<lBody>> ELSE <<>>)
    \o <<<<"#", "#", " ">> \o b>> \o (IF bodyB THEN <<lBody>> ELSE <<>>)

HeaderPairs ==
    {HeaderPair(a, x, b, y) : a \in SectionNames, b \in SectionNames,
                              x \in BOOLEAN, y \in BOOLEAN}

\* load_template of a template '# A', '## B' on a new parser
LoadHeaderPair ==
    /\ op = "none"
    /\ \E t \in HeaderPairs : LoadContent(t)
    /\ op' = "load"

\* the headers A and B of the template loaded
SecondHeaderLine == CHOOSE i \in 2..Len(tcontent) : HeaderMatches(tcontent[i])
FirstHeader == HeaderName(tcontent[1])
SecondHeader == HeaderName(tcontent[SecondHeaderLine])

\* get_section_structure("B")
LookUpSecondHeader ==
    /\ op = "load"
    /\ lookup' = [returned |-> TRUE, name |-> SecondHeader,
                  structure |-> GetSectionStructure(sections, SecondHeader)]
    /\ op' = "lookup"
    /\ UNCHANGED <<tcontent, sections, toc, glossary, tblVars, verVars, extVars, pipelineVars>>

NextRoundTrip ==
    \/ LoadHeaderPair
    \/ LookUpSecondHeader

SpecRoundTrip == InitParser /\ [][NextRoundTrip]_vars

\* C10: for a template with a level-1 header A followed by a level-2 header
\* B, whatever the two section names the parser accepts as headers,
\* get_sections() is exactly "A" and "A/B" and get_section_structure("B") is
\* the structure of the section A/B.
C10_RoundTrip ==
    (/\ op = "lookup"
     /\ IsValidSectionHeader(FirstHeader, tcontent, 1)
     /\ IsValidSectionHeader(SecondHeader, tcontent, SecondHeaderLine)) =>
        /\ GetSections(sections)
             = <<FirstHeader, FirstHeader \o <<"/">> \o SecondHeader>>
        /\ lookup.structure.found
        /\ lookup.structure.name = SecondHeader
        /\ lookup.structure.path = <<FirstHeader, SecondHeader>>
        /\ lookup.structure.level = 2

-----------------------------------------------------------------------------
(* TemplateParser: documents with pipe-delimited table lines *)

pCapsRow == <<"D", "R", "U", "G", " ", "N", "A", "M", "E", " ", "|", " ", "D", "o", "s", "e">>
pCapsRowPiped == <<"|", " ", "D", "R", "U", "G", " ", "N", "A", "M", "E", " ", "|", " ", "D", "o", "s", "e", " ", "|">>
pCapsRowHash == <<"#", " ", "D", "R", "U", "G", " ", "N", "A", "M", "E", " ", "|", " ", "D", "o", "s", "e">>
pCapsKeywordRow == <<"R", "E", "S", "U", "L", "T", "S", " ", "D", "A", "T", "A", " ", "S", "U", "M", "M", "A", "R", "Y", " ", "|", " ", "x">>
pNumberedRow == <<"1", ".", " ", "M", "e", "t", "h", "o", "d", "s", " ", "u", "s", "e", "d", " ", "h", "e", "r", "e", ".", " ", "|", " ", "x">>
lCapsHeader == <<"R", "E", "S", "U", "L", "T", "S", " ", "D", "A", "T", "A", " ", "S", "U", "M", "M", "A", "R", "Y">>

TableDocumentLinePool ==
    {pCapsRow, pCapsRowPiped, pCapsRowHash, pCapsKeywordRow, pNumberedRow,
     lCapsHeader, lAlpha, lBody}

TableDocuments == SeqsUpTo(TableDocumentLinePool, MaxTemplateLines)

\* load_template of a document with table lines on a new parser
LoadTableDocument ==
    /\ op = "none"
    /\ \E t \in TableDocuments : LoadContent(t)
    /\ op' = "load"

NextHeaders == LoadTableDocument

SpecHeaders == InitParser /\ [][NextHeaders]_vars

\* the lines of a document the parser starts a section at
SectionHeaderLines(lines) ==
    LET h == ParseLines(lines, 1, ParseStart).headers
    IN  {h[k] : k \in 1..Len(h)}

\* C11: for every document, no line containing '|' (a first row beginning
\* with an all-caps phrase, with or without outer pipes or a leading '#',
\* included) is registered as a section by the parser.
C11_NoTableLineIsASection ==
    op = "load" =>
        /\ \A i \in SectionHeaderLines(tcontent) : ~Contains(tcontent[i], <<"|">>)
        /\ Len(sections) <= Cardinality(SectionHeaderLines(tcontent))

\* a '#' line with an all-caps first cell and text under it, an all-caps
\* header without a pipe next to it: only the latter is a section
C11_Witness ==
    /\ op = "load"
    /\ tcontent = <<pCapsRowHash, lCapsHeader, lBody>>
    /\ GetSections(sections) = << TitleText(lCapsHeader) >>

-----------------------------------------------------------------------------
(* SmartChunker: _chunk_tables *)

MaxTableRows == 3

\* _count_tokens without a tokenizer: len(text) // 4
CountTokens(text) == Len(text) \div 4

\* str.split(sep) for a separator that is not empty
RECURSIVE SplitText(_, _)
SplitText(s, sep) ==
    LET found == {i \in 1..(Len(s) - Len(sep) + 1) : SubSeq(s, i, i + Len(sep) - 1) = sep}
    IN  IF found = {} THEN <<s>>
        ELSE LET i == CHOOSE j \in found : \A k \in found : j <= k
             IN  <<SubSeq(s, 1, i - 1)>> \o SplitText(SubSeq(s, i + Len(sep), Len(s)), sep)

\* the chunk of a table that fits (lines 100-108); of: the table it is made of
TableChunk(text, k) == [text |-> text, chunk_type |-> "table", of |-> k]

\* the chunk of some rows of a large table (lines 118-123, 131-136)
PartialChunk(rows, k) ==
    [text |-> JoinWith(rows, <<"\n">>), chunk_type |-> "table_partial", of |-> k]

\* the loop that forgets the row that did not fit
RECURSIVE SplitTableRowsDroppingRow(_, _, _, _, _, _)
SplitTableRowsDroppingRow(rows, i, current, size, chunkSize, k) ==
    IF i > Len(rows)
    THEN IF current # <<>> THEN <<PartialChunk(current, k)>> ELSE <<>>
    ELSE LET rowSize == CountTokens(rows[i])
         IN  IF size + rowSize > chunkSize /\ current # <<>>
             THEN <<PartialChunk(current, k)>>
                  \o SplitTableRowsDroppingRow(rows, i + 1, <<>>, 0, chunkSize, k)
             ELSE SplitTableRowsDroppingRow(rows, i + 1, Append(current, rows[i]),
                                             size + rowSize, chunkSize, k)

\* the loop over the rows of a large table (lines 112-136)
RECURSIVE SplitTableRows(_, _, _, _, _, _)
SplitTableRows(rows, i, current, size, chunkSize, k) ==
    IF i > Len(rows)
    THEN IF current # <<>> THEN <<PartialChunk(current, k)>> ELSE <<>>
    ELSE LET rowSize == CountTokens(rows[i])
         IN  IF size + rowSize > chunkSize /\ current # <<>>
             THEN <<PartialChunk(current, k)>>
                  \o SplitTableRows(rows, i + 1, <<rows[i]>>, rowSize, chunkSize, k)
             ELSE SplitTableRows(rows, i + 1, Append(current, rows[i]),
                                 size + rowSize, chunkSize, k)

\* the chunks of the k-th table (lines 96-136)
ChunksOfTable(text, k, cfg) ==
    IF text = <<>> THEN <<>>
    ELSE IF CountTokens(text) <= cfg.max_chunk_size THEN <<TableChunk(text, k)>>
    ELSE SplitTableRows(SplitText(text, <<"\n">>), 1, <<>>, 0, cfg.chunk_size, k)

RECURSIVE ChunkTablesFrom(_, _, _)
ChunkTablesFrom(tables, k, cfg) ==
    IF k > Len(tables) THEN <<>>
    ELSE ChunksOfTable(tables[k], k, cfg) \o ChunkTablesFrom(tables, k + 1, cfg)

ChunkTables(tables, cfg) == ChunkTablesFrom(tables, 1, cfg)

rowDose == <<"a", " ", "|", " ", "b">>
rowResult == <<"c", "c", " ", "|", " ", "d", "d">>
rowShort == <<"e">>
rowWide == <<"f", "f", "f", "f", " ", "|", " ", "g", "g", "g", "g">>
rowBlank == <<>>

TableRowPool == {rowDose, rowResult, rowShort, rowWide, rowBlank}
WideRowPool == {rowDose, rowWide}

\* table text as _table_to_text and _docx_table_to_text build it: the rows
\* that are not empty joined by newlines, "" for a table without such rows;
\* and table text with blank lines in it
TableTexts(pool) ==
    {<<>>} \cup {JoinWith(r, <<"\n">>) : r \in SeqsUpTo(pool, MaxTableRows)}

TableLists ==
    {<<t>> : t \in TableTexts(TableRowPool)}
        \cup {<<t, u>> : t \in TableTexts(WideRowPool), u \in TableTexts(WideRowPool)}

ChunkerConfigs ==
    {[chunk_size |-> size, chunk_overlap |-> 1, max_chunk_size |-> m] : size \in {1, 2}, m \in {2, 4}}

InitChunker ==
    /\ op = "none"
    /\ TablesIdle
    /\ VerifyIdle
    /\ ExtractIdle
    /\ ParserIdle
    /\ PipelineIdle

\* SmartChunker(chunk_size, chunk_overlap, max_chunk_size)._chunk_tables(tables, metadata)
ChunkTablesOfDocument ==
    /\ op = "none"
    /\ \E cfg \in ChunkerConfigs, tables \in TableLists :
        /\ chunker' = cfg
        /\ document' = [tables |-> tables]
        /\ chunked' = <<ChunkTables(tables, cfg)>>
    /\ op' = "chunk_tables"
    /\ UNCHANGED <<tblVars, verVars, extVars, parVars, flowVars, stoVars>>

NextChunkTables == ChunkTablesOfDocument

SpecChunkTables == InitChunker /\ [][NextChunkTables]_vars

\* the chunks made of the k-th table, in emission order
ChunksOf(k) == SelectSeq(chunked[1], LAMBDA chunk : chunk.of = k)

RECURSIVE RowsOfChunks(_)
RowsOfChunks(cs) ==
    IF cs = <<>> THEN <<>>
    ELSE SplitText(cs[1].text, <<"\n">>) \o RowsOfChunks(Tail(cs))

\* a large table: the rows of its fragments, in order, are the table's rows
WholeRowsInOrder(k) ==
    /\ ChunksOf(k) # <<>>
    /\ \A j \in 1..Len(ChunksOf(k)) : ChunksOf(k)[j].chunk_type = "table_partial"
    /\ RowsOfChunks(ChunksOf(k)) = SplitText(document.tables[k], <<"\n">>)

OneWholeChunk(k) ==
    /\ Len(ChunksOf(k)) = 1
    /\ ChunksOf(k)[1].text = document.tables[k]

\* C12 as stated: every table of at most max_chunk_size tokens is emitted as
\* exactly one chunk holding the whole table text; a larger table is emitted
\* as fragments of whole rows whose rows, in order, are the table's rows.
C12_TableAtomicity ==
    op = "chunk_tables" =>
        \A k \in 1..Len(document.tables) :
            IF CountTokens(document.tables[k]) <= chunker.max_chunk_size
            THEN OneWholeChunk(k)
            ELSE WholeRowsInOrder(k)

\* C12, amended: a table whose text is empty is emitted as no chunk at all;
\* every other table of at most max_chunk_size tokens is emitted as exactly
\* one chunk holding the whole table text; a larger table is emitted as
\* fragments of whole rows whose rows, in order, are the table's rows.
C12_NonEmptyTableAtomicity ==
    op = "chunk_tables" =>
        \A k \in 1..Len(document.tables) :
            IF document.tables[k] = <<>> THEN ChunksOf(k) = <<>>
            ELSE IF CountTokens(document.tables[k]) <= chunker.max_chunk_size
            THEN OneWholeChunk(k)
            ELSE WholeRowsInOrder(k)

\* a table that fits next to a large table emitted as several fragments
C12_Witness ==
    /\ op = "chunk_tables"
    /\ Len(document.tables) = 2
    /\ document.tables[1] # <<>>
    /\ CountTokens(document.tables[1]) <= chunker.max_chunk_size
    /\ Len(ChunksOf(1)) = 1
    /\ CountTokens(document.tables[2]) > chunker.max_chunk_size
    /\ Len(ChunksOf(2)) >= 2

-----------------------------------------------------------------------------
(* SmartChunker: chunk_document *)

\* the chunk of a group of variables (lines 155-160, 169-174)
VariableText(var) == var.key \o <<":", " ">> \o var.value

VariablesChunk(group) ==
    [text |-> JoinWith([j \in 1..Len(group) |-> VariableText(group[j])], <<"\n">>),
     chunk_type |-> "variables"]

\* a flush that starts the next group empty
RECURSIVE GroupVariablesDropping(_, _, _, _, _)
GroupVariablesDropping(variables, i, group, size, chunkSize) ==
    IF i > Len(variables)
    THEN IF group # <<>> THEN <<VariablesChunk(group)>> ELSE <<>>
    ELSE LET varSize == CountTokens(VariableText(variables[i]))
         IN  IF size + varSize > chunkSize /\ group # <<>>
             THEN <<VariablesChunk(group)>>
                  \o GroupVariablesDropping(variables, i + 1, <<>>, 0, chunkSize)
             ELSE GroupVariablesDropping(variables, i + 1, Append(group, variables[i]),
                                         size + varSize, chunkSize)

\* the loop of _chunk_variables (lines 149-174)
RECURSIVE GroupVariables(_, _, _, _, _)
GroupVariables(variables, i, group, size, chunkSize) ==
    IF i > Len(variables)
    THEN IF group # <<>> THEN <<VariablesChunk(group)>> ELSE <<>>
    ELSE LET varSize == CountTokens(VariableText(variables[i]))
         IN  IF size + varSize > chunkSize /\ group # <<>>
             THEN <<VariablesChunk(group)>>
                  \o GroupVariables(variables, i + 1, <<variables[i]>>, varSize, chunkSize)
             ELSE GroupVariables(variables, i + 1, Append(group, variables[i]),
                                 size + varSize, chunkSize)

ChunkVariables(variables, cfg) == GroupVariables(variables, 1, <<>>, 0, cfg.chunk_size)

DigitChar(d) ==
    CASE d = 0 -> "0" [] d = 1 -> "1" [] d = 2 -> "2" [] d = 3 -> "3" [] d = 4 -> "4"
      [] d = 5 -> "5" [] d = 6 -> "6" [] d = 7 -> "7" [] d = 8 -> "8" [] d = 9 -> "9"

\* str(n) for n >= 0
RECURSIVE Digits(_)
Digits(n) == IF n < 10 THEN <<DigitChar(n)>> ELSE Digits(n \div 10) \o <<DigitChar(n % 10)>>

\* the marker of the k-th table of page 1 (line 301): table_index k - 1
TableMarker(k) == <<"-", "-", "-", " ", "T", "a", "b", "l", "e", " ">> \o Digits(k) \o <<" ", "o", "n", " ", "P", "a", "g", "e", " ", "1", " ", "-", "-", "-">>

\* str.replace(sub, rep)
ReplaceAll(s, sub, rep) == JoinWith(SplitText(s, sub), rep)

\* _clean_text_for_chunking (lines 293-305)
RECURSIVE CleanTextFrom(_, _, _)
CleanTextFrom(text, tables, k) ==
    IF k > Len(tables) THEN text
    ELSE IF tables[k] = <<>> THEN CleanTextFrom(text, tables, k + 1)
    ELSE CleanTextFrom(ReplaceAll(text, TableMarker(k), <<>>), tables, k + 1)

CleanTextForChunking(text, tables) == CleanTextFrom(text, tables, 1)

\* number of digits of s from position i on
RECURSIVE DigitRun(_, _)
DigitRun(s, i) == IF i <= Len(s) /\ IsDigit(s[i]) THEN 1 + DigitRun(s, i + 1) ELSE 0

\* length of the match of  --- Page \d+ ---  at position i, 0 without a match
PageBreakLen(s, i) ==
    LET d == DigitRun(s, i + 9)
    IN  IF /\ i + 8 <= Len(s)
           /\ SubSeq(s, i, i + 8) = <<"-", "-", "-", " ", "P", "a", "g", "e", " ">>
           /\ d >= 1
           /\ i + 12 + d <= Len(s)
           /\ SubSeq(s, i + 9 + d, i + 12 + d) = <<" ", "-", "-", "-">>
        THEN 13 + d ELSE 0

\* re.split(r"--- Page \d+ ---", text) (line 187)
RECURSIVE SplitOnPageBreaks(_)
SplitOnPageBreaks(s) ==
    LET found == {i \in 1..Len(s) : PageBreakLen(s, i) > 0}
    IN  IF found = {} THEN <<s>>
        ELSE LET i == CHOOSE j \in found : \A k \in found : j <= k
             IN  <<SubSeq(s, 1, i - 1)>>
                 \o SplitOnPageBreaks(SubSeq(s, i + PageBreakLen(s, i), Len(s)))

\* length of the match of  \n(#{1,3}\s+.+?)\n  at position i, the closing
\* newline left out, 0 without a match: the engine takes the most '#', then
\* the most whitespace, then the fewest characters of one line
HeaderMatchLen(s, i) ==
    LET fits(h, w, m) ==
            /\ i + 1 + h + w + m <= Len(s)
            /\ s[i + 1 + h + w + m] = "\n"
            /\ \A j \in (i + 1)..(i + h) : s[j] = "#"
            /\ \A j \in (i + h + 1)..(i + h + w) : IsSpace(s[j])
            /\ \A j \in (i + h + w + 1)..(i + h + w + m) : s[j] # "\n"
        R == 1..Len(s)
        hs == {h \in 1..3 : \E w \in R, m \in R : fits(h, w, m)}
        h0 == CHOOSE h \in hs : \A g \in hs : g <= h
        ws == {w \in R : \E m \in R : fits(h0, w, m)}
        w0 == CHOOSE w \in ws : \A g \in ws : g <= w
        ms == {m \in R : fits(h0, w0, m)}
        m0 == CHOOSE m \in ms : \A g \in ms : m <= g
    IN  IF i > Len(s) \/ s[i] # "\n" \/ hs = {} THEN 0 ELSE 1 + h0 + w0 + m0

\* re.split(r"\n(#{1,3}\s+.+?)\n", section) (line 193): text, header, text, ...
RECURSIVE SplitOnHeaders(_)
SplitOnHeaders(s) ==
    LET found == {i \in 1..Len(s) : HeaderMatchLen(s, i) > 0}
    IN  IF found = {} THEN <<s>>
        ELSE LET i == CHOOSE j \in found : \A k \in found : j <= k
                 n == HeaderMatchLen(s, i)
             IN  <<SubSeq(s, 1, i - 1), SubSeq(s, i + 1, i + n - 1)>>
                 \o SplitOnHeaders(SubSeq(s, i + n + 1, Len(s)))

\* lines 196-200: each text joined to the header that follows it, then the last text
RecombineHeaders(subs) ==
    [j \in 1..((Len(subs) - 1) \div 2) |-> subs[2 * j - 1] \o <<"\n">> \o subs[2 * j]]
        \o (IF Len(subs) % 2 = 1 THEN <<subs[Len(subs)]>> ELSE <<>>)

RECURSIVE FinalSections(_)
FinalSections(pages) ==
    IF pages = <<>> THEN <<>>
    ELSE LET subs == SplitOnHeaders(pages[1])
         IN  (IF Len(subs) > 1 THEN RecombineHeaders(subs) ELSE <<pages[1]>>)
             \o FinalSections(Tail(pages))

StrippedNonEmpty(parts) ==
    LET kept == SelectSeq(parts, LAMBDA part : StripText(part) # <<>>)
    IN  [j \in 1..Len(kept) |-> StripText(kept[j])]

\* _split_into_sections (lines 178-205)
SplitIntoSections(text) == StrippedNonEmpty(FinalSections(SplitOnPageBreaks(text)))

\* self.separators (lines 32-39)
Separators ==
    << <<"\n", "\n", "\n">>, <<"\n", "\n">>, <<"\n">>, <<".", " ">>, <<" ">>, <<>> >>

\* text.split(separator), list(text) for the empty separator (lines 233-237)
SplitsOf(text, separator) ==
    IF separator # <<>> THEN SplitText(text, separator)
    ELSE [j \in 1..Len(text) |-> <<text[j]>>]

\* _should_chunk_section (lines 289-291)
ShouldChunkSection(section, cfg) == CountTokens(section) > cfg.chunk_size

RECURSIVE RecursiveSplitText(_, _)
RECURSIVE SplitLoop(_, _, _, _, _, _)

\* the loop over the splits of one separator (lines 245-276)
SplitLoop(splits, i, separator, current, length, cfg) ==
    LET flushed == <<JoinWith(current, separator)>>
    IN  IF i > Len(splits)
        THEN IF current # <<>> THEN flushed ELSE <<>>
        ELSE LET splitText == IF separator = <<>> THEN splits[i] ELSE splits[i] \o separator
                 splitLength == CountTokens(splitText)
             IN  IF splitLength > cfg.chunk_size
                 THEN (IF current # <<>> THEN flushed ELSE <<>>)
                      \o RecursiveSplitText(splits[i], cfg)
                      \o SplitLoop(splits, i + 1, separator, <<>>, 0, cfg)
                 ELSE IF length + splitLength > cfg.chunk_size /\ current # <<>>
                 THEN flushed \o
                      (IF cfg.chunk_overlap > 0
                       THEN SplitLoop(splits, i + 1, separator,
                                      <<current[Len(current)], splitText>>,
                                      CountTokens(current[Len(current)]) + splitLength, cfg)
                       ELSE SplitLoop(splits, i + 1, separator, <<splitText>>, splitLength, cfg))
                 ELSE SplitLoop(splits, i + 1, separator, Append(current, splitText),
                                length + splitLength, cfg)

\* _recursive_split_text (lines 221-279); the fallback of lines 281-287 needs
\* a text of one character to have more tokens than chunk_size
RecursiveSplitText(text, cfg) ==
    IF text = <<>> THEN <<>>
    ELSE IF CountTokens(text) <= cfg.chunk_size THEN <<text>>
    ELSE LET usable == {k \in 1..Len(Separators) : Len(SplitsOf(text, Separators[k])) > 1}
             k0 == CHOOSE k \in usable : \A j \in usable : k <= j
         IN  SelectSeq(SplitLoop(SplitsOf(text, Separators[k0]), 1, Separators[k0], <<>>, 0, cfg),
                       LAMBDA part : StripText(part) # <<>>)

\* _chunk_section (lines 207-219)
ChunkSection(section, cfg) ==
    LET parts == RecursiveSplitText(section, cfg)
    IN  [j \in 1..Len(parts) |-> [text |-> parts[j], chunk_type |-> "text"]]

\* lines 72-82
RECURSIVE SectionChunks(_, _)
SectionChunks(secs, cfg) ==
    IF secs = <<>> THEN <<>>
    ELSE (IF ShouldChunkSection(secs[1], cfg) THEN ChunkSection(secs[1], cfg)
          ELSE <<[text |-> secs[1], chunk_type |-> "section"]>>)
         \o SectionChunks(Tail(secs), cfg)

\* metadata.get('file_name', 'doc') (line 87)
FileName(doc) == IF doc.named THEN doc.file_name ELSE <<"d", "o", "c">>

\* the loop that numbers the chunks from 1
NumberChunksFromOne(chunks, doc) ==
    [j \in 1..Len(chunks) |->
        [text |-> chunks[j].text, chunk_type |-> chunks[j].chunk_type,
         chunk_index |-> j,
         chunk_id |-> FileName(doc) \o <<"_", "c", "h", "u", "n", "k", "_">> \o Digits(j),
         token_count |-> CountTokens(chunks[j].text)]]

\* lines 85-88: enumerate(chunks)
NumberChunks(chunks, doc) ==
    [j \in 1..Len(chunks) |->
        [text |-> chunks[j].text, chunk_type |-> chunks[j].chunk_type,
         chunk_index |-> j - 1,
         chunk_id |-> FileName(doc) \o <<"_", "c", "h", "u", "n", "k", "_">> \o Digits(j - 1),
         token_count |-> CountTokens(chunks[j].text)]]

\* chunk_document (lines 41-90)
ChunkDocument(doc, cfg) ==
    LET tableChunks == ChunkTables(doc.tables, cfg)
        plain == [j \in 1..Len(tableChunks) |->
                    [text |-> tableChunks[j].text, chunk_type |-> tableChunks[j].chunk_type]]
    IN  NumberChunks(plain \o ChunkVariables(doc.variables, cfg)
                        \o SectionChunks(SplitIntoSections(CleanTextForChunking(doc.text, doc.tables)), cfg),
                     doc)

MaxTextPieces == 2

tIntro == <<"I", "n", "t", "r", "o", " ", "t", "e", "x", "t", ".", " ", "M", "o", "r", "e", " ", "w", "o", "r", "d", "s", " ", "h", "e", "r", "e">>
tHead == <<"\n">> \o <<"#", " ", "H", "e", "a", "d">> \o <<"\n">>
tSubHead == <<"\n">> \o <<"#", "#", " ">> \o <<"\n">> \o <<"S", "u", "b", " ", "x">> \o <<"\n">>
tPage == <<"-", "-", "-", " ", "P", "a", "g", "e", " ", "2", " ", "-", "-", "-">>
tMarker == <<"-", "-", "-", " ", "T", "a", "b", "l", "e", " ", "1", " ", "o", "n", " ", "P", "a", "g", "e", " ", "1", " ", "-", "-", "-">>
tPara == <<"a", "b", " ", "c", "d">> \o <<"\n", "\n">> \o <<"e", "f", " ", "g", "h">>
tLines == <<"o", "n", "e">> \o <<"\n">> \o <<"t", "w", "o">> \o <<"\n">> \o <<"t", "h", "r", "e", "e">>
tLongWord == <<"a", "b", "c", "d", "e", "f", "g", "h", "i", "j", "k", "l">>
TextPiecePool == {tIntro, tHead, tSubHead, tPage, tMarker, tPara, tLines, tLongWord}

DocumentTexts ==
    {<<>>} \cup {JoinWith(p, <<>>) : p \in SeqsUpTo(TextPiecePool, MaxTextPieces)}

vPh == [key |-> <<"p", "H">>, value |-> <<"7", ".", "4">>]
vDose == [key |-> <<"D", "o", "s", "e">>, value |-> <<"1", "0", " ", "m", "g">>]
vLot == [key |-> <<"L", "o", "t">>, value |-> <<"A", "1">>]

fileName == <<"a", ".", "p", "d", "f">>

\* the tables of page 1, the variables and the metadata of a parsed document
DocumentParts ==
    {[tables |-> <<>>, variables |-> <<>>, named |-> FALSE, file_name |-> <<>>],
     [tables |-> <<rowDose>>, variables |-> <<vPh>>, named |-> TRUE, file_name |-> fileName],
     [tables |-> <<JoinWith(<<rowDose, rowWide, rowWide>>, <<"\n">>)>>, variables |-> <<>>,
      named |-> TRUE, file_name |-> fileName],
     [tables |-> << <<>>, rowWide >>, variables |-> <<vPh, vDose, vLot>>,
      named |-> FALSE, file_name |-> <<>>]}

\* documents as DocumentParser.parse returns them
Documents ==
    {[text |-> t, tables |-> p.tables, variables |-> p.variables,
      named |-> p.named, file_name |-> p.file_name] :
        t \in DocumentTexts, p \in DocumentParts}

DocumentChunkerConfigs ==
    {[chunk_size |-> size, chunk_overlap |-> o, max_chunk_size |-> 2] :
        size \in {1, 2}, o \in {0, 1}}

\* SmartChunker(...).chunk_document(document), the first call
ChunkDocumentFirst ==
    /\ op = "none"
    /\ \E cfg \in DocumentChunkerConfigs, doc \in Documents :
        /\ chunker' = cfg
        /\ document' = doc
        /\ chunked' = <<ChunkDocument(doc, cfg)>>
    /\ op' = "chunk"
    /\ UNCHANGED <<tblVars, verVars, extVars, parVars, flowVars, stoVars>>

\* chunk_document called again with the same document on the same chunker:
\* the method reads document and self, and writes neither
ChunkDocumentAgain ==
    /\ op = "chunk"
    /\ chunked' = Append(chunked, ChunkDocument(document, chunker))
    /\ op' = "chunk_again"
    /\ UNCHANGED <<chunker, document, tblVars, verVars, extVars, parVars, flowVars, stoVars>>

NextChunker == ChunkDocumentFirst \/ ChunkDocumentAgain

SpecChunker == InitChunker /\ [][NextChunker]_vars

-----------------------------------------------------------------------------
(* ImprovedAgentFlow: process_section_with_verification *)

MaxReadLines == 2

\* confidence of the defaults of improved_agent_flow.py, in hundredths
DisabledConfidence == 75
FailedConfidence == 50

\* ImprovedAgentFlow.__init__ (lines 42-55) and VerificationAgent.__init__:
\* the verification agent is there when verification is enabled and its
\* constructor does not raise; it has an LLM, an index, both or neither
NewFlow(enable, agentRaises, llm, index) ==
    IF enable /\ ~agentRaises
    THEN [enable_verification |-> TRUE, agent |-> TRUE, llm |-> llm, index |-> index]
    ELSE [enable_verification |-> FALSE, agent |-> FALSE, llm |-> FALSE, index |-> FALSE]

Flows == {NewFlow(e, r, l, i) : e \in BOOLEAN, r \in BOOLEAN, l \in BOOLEAN, i \in BOOLEAN}

\* _generate_warnings (verification_agent.py 530-549) without a template
\* structure: more than five low-confidence areas; a low-confidence area of
\* type numeric_data (every finding of the numeric pass is one)
GenerateWarnings(confs, lines) ==
    LET claims == ExtractClaims(lines)
    IN  (IF LowCount(confs) + NumericIssues(lines) > 5 THEN <<"low confidence">> ELSE <<>>)
        \o (IF \/ NumericIssues(lines) > 0
               \/ \E i \in 1..Len(confs) : claims[i] = "numeric_data" /\ confs[i] < 50
            THEN <<"numeric values not verified">> ELSE <<>>)

\* the dictionary of verification_agent.py 189-204, as the flow reads it
AggregatedVerification(confs, lines) ==
    [verified |-> VerificationResult(confs, lines).verified,
     confidence |-> VerificationResult(confs, lines).confidence,
     issues |-> LowCount(confs) + NumericIssues(lines),
     warnings |-> GenerateWarnings(confs, lines)]

\* verification_agent.py 84-91
NoLLMVerification ==
    [verified |-> NoLLMResult.verified, confidence |-> NoLLMResult.confidence,
     issues |-> 1, warnings |-> <<>>]

\* the default that reports an error as verified
FailedVerificationVerified ==
    [verified |-> TRUE, confidence |-> Ratio(FailedConfidence, 1),
     issues |-> 1, warnings |-> <<"Could not complete verification">>]

\* lines 108-113
FailedVerification ==
    [verified |-> FALSE, confidence |-> Ratio(FailedConfidence, 1),
     issues |-> 1, warnings |-> <<"Could not complete verification">>]

\* lines 115-120
DisabledVerification ==
    [verified |-> TRUE, confidence |-> Ratio(DisabledConfidence, 1),
     issues |-> 0, warnings |-> <<"Verification disabled">>]

\* a result that withholds the markdown of a section that is not verified
VerifiedSectionsOnly(markdown, verification) ==
    [returned |-> TRUE,
     generated_markdown |-> IF verification.verified THEN markdown ELSE EmptyContent,
     verification |-> verification,
     verified |-> verification.verified,
     overall_confidence |-> verification.confidence]

\* lines 124-135
FlowResult(markdown, verification) ==
    [returned |-> TRUE,
     generated_markdown |-> markdown,
     verification |-> verification,
     verified |-> verification.verified,
     overall_confidence |-> verification.confidence]

FlowTemplates == {None, <<RowDoseRes, SepLine>>}

\* what the completion service answers to the generation query
FlowResponses ==
    {EmptyContent, <<TextLine>>, <<RowDoseRes, SepLine, RowIdMg>>, <<RowIdMg, SepLine, TextLine>>}

\* the generated markdown as _extract_claims and _validate_numeric_precision
\* read it: any lines of the verified content
Readings == {<<>>} \cup SeqsUpTo(VLinePool, MaxReadLines)

InitFlow ==
    /\ op = "none"
    /\ tpl \in FlowTemplates
    /\ gen \in FlowResponses
    /\ inp = None
    /\ out = None
    /\ flow \in Flows
    /\ request = <<>>
    /\ returned = NoResult
    /\ VerifyIdle
    /\ ExtractIdle
    /\ ParserIdle
    /\ ChunkerIdle
    /\ StoreIdle

\* step 1 (lines 76-83): process_section, the query answering or raising
GenerateContent(raised) ==
    /\ inp' = PreservedContent(gen, raised)
    /\ out' = GeneratedMarkdown(tpl, gen, raised)

\* process_section_with_verification: verify_generated_content aggregates
\* (with an index every claim is checked against the sources, without one
\* by the LLM alone)
ProcessSectionVerified ==
    /\ op = "none"
    /\ flow.enable_verification /\ flow.agent /\ flow.llm
    /\ \E raised \in BOOLEAN : GenerateContent(raised)
    /\ \E lines \in Readings :
         /\ vcontent' = lines
         /\ \E answers \in [1..Len(ExtractClaims(lines)) -> Statuses] :
              vconfs' = [i \in 1..Len(ExtractClaims(lines)) |->
                            IF flow.index
                            THEN ClaimConfidence(ExtractClaims(lines)[i], answers[i], -1)
                            ELSE DefaultConfidence]
    /\ vresult' = AggregatedVerification(vconfs', vcontent')
    /\ returned' = FlowResult(out', vresult')
    /\ op' = "flow_verified"
    /\ UNCHANGED <<tpl, gen, flow, request, extVars, parVars, chkVars, stoVars>>

\* process_section_with_verification: the verification agent has no LLM
ProcessSectionWithoutLLM ==
    /\ op = "none"
    /\ flow.enable_verification /\ flow.agent /\ ~flow.llm
    /\ \E raised \in BOOLEAN : GenerateContent(raised)
    /\ vresult' = NoLLMVerification
    /\ returned' = FlowResult(out', vresult')
    /\ op' = "flow_no_llm"
    /\ UNCHANGED <<tpl, gen, flow, request, vcontent, vconfs, extVars, parVars, chkVars, stoVars>>

\* process_section_with_verification: verify_generated_content raises
ProcessSectionVerificationRaises ==
    /\ op = "none"
    /\ flow.enable_verification /\ flow.agent /\ flow.llm
    /\ \E raised \in BOOLEAN : GenerateContent(raised)
    /\ vresult' = FailedVerification
    /\ returned' = FlowResult(out', vresult')
    /\ op' = "flow_raised"
    /\ UNCHANGED <<tpl, gen, flow, request, vcontent, vconfs, extVars, parVars, chkVars, stoVars>>

\* process_section_with_verification: verification disabled, or no agent
ProcessSectionUnverified ==
    /\ op = "none"
    /\ ~(flow.enable_verification /\ flow.agent)
    /\ \E raised \in BOOLEAN : GenerateContent(raised)
    /\ vresult' = DisabledVerification
    /\ returned' = FlowResult(out', vresult')
    /\ op' = "flow_disabled"
    /\ UNCHANGED <<tpl, gen, flow, request, vcontent, vconfs, extVars, parVars, chkVars, stoVars>>

NextFlow ==
    \/ ProcessSectionVerified
    \/ ProcessSectionWithoutLLM
    \/ ProcessSectionVerificationRaises
    \/ ProcessSectionUnverified

SpecFlow == InitFlow /\ [][NextFlow]_vars

FlowOps == {"flow_verified", "flow_no_llm", "flow_raised", "flow_disabled"}

\* C14: process_section_with_verification returns the markdown of the
\* generation step unchanged, whether verification succeeds, raises or is
\* disabled.
C14_VerificationIsAdvisory ==
    op \in FlowOps =>
        /\ returned.returned
        /\ returned.generated_markdown = out
        /\ \E raised \in BOOLEAN : out = GeneratedMarkdown(tpl, gen, raised)

\* verification raised and the markdown generated from the response of the
\* completion service, no placeholder, is returned
C14_Witness ==
    /\ op = "flow_raised"
    /\ ~returned.verification.verified
    /\ gen = <<RowDoseRes, SepLine, RowIdMg>>
    /\ returned.generated_markdown = GeneratedMarkdown(tpl, gen, FALSE)
    /\ returned.generated_markdown \notin
         {QueryErrorPlaceholder, EmptyResponsePlaceholder, NoContentPlaceholder}

\* the calls in which verification could not be carried out: no LLM, an
\* exception, verification disabled or the agent not constructed
UnavailableOps == {"flow_no_llm", "flow_raised", "flow_disabled"}

\* C15: whenever verification cannot be carried out (disabled, agent not
\* initialised, LLM unavailable, verification raises) the request succeeds
\* and the returned verification has confidence 0.75 and a warning.
C15_DefaultConfidenceWhenUnavailable ==
    op \in UnavailableOps =>
        /\ returned.returned
        /\ returned.verification.confidence.num
             = DisabledConfidence * returned.verification.confidence.den
        /\ returned.verification.warnings # <<>>

\* C20: in every verification result that is returned (aggregation, LLM
\* unavailable, verification exception, verification disabled) verified is
\* true exactly when the reported confidence is at least 0.7.
C20_VerifiedAgreesWithConfidence ==
    op \in FlowOps =>
        /\ returned.verification.verified
             <=> returned.verification.confidence.num
                   >= VerifiedThreshold * returned.verification.confidence.den
        /\ returned.verified = returned.verification.verified
        /\ returned.overall_confidence = returned.verification.confidence

\* an aggregated confidence between 0.7 and 1: two claims, one high and one
\* medium
C20_Witness ==
    /\ op = "flow_verified"
    /\ Len(vconfs) = 2
    /\ returned.verification.verified
    /\ returned.verification.confidence.num < 100 * returned.verification.confidence.den

-----------------------------------------------------------------------------
(* LlamaAgentFlow.process_section: failures of the query *)

-----------------------------------------------------------------------------
(* LlamaAgentFlow.generate_with_template and
   ImprovedAgentFlow.generate_with_template_verified *)

lDoseResRow == <<"|", " ", "D", "o", "s", "e", " ", "|", " ", "R", "e", "s", " ", "|">>
lDashRow == <<"|", " ", "-", "-", "-", " ", "|", " ", "-", "-", "-", " ", "|">>
nGamma == <<"G", "a", "m", "m", "a">>

\* the content of a template section as process_section reads a text: its
\* lines, each the stripped cells between its pipes
ToTableLines(content) ==
    LET lines == SplitText(content, <<"\n">>)
    IN  [i \in 1..Len(lines) |->
            LET cells == SplitText(lines[i], <<"|">>)
            IN  [j \in 1..Len(cells) |-> StripText(cells[j])]]

\* '# A' with a table under it, '## B' with a line of text under it
TableAndTextTemplate(a, b) ==
    <<<<"#", " ">> \o a, lDoseResRow, lDashRow, <<"#", "#", " ">> \o b, lBody>>

TemplateFileNames == {nAlpha, nBeta, nAlphaBeta, nLowerAlpha}

TemplateFiles ==
    {TableAndTextTemplate(a, b) : a \in TemplateFileNames, b \in TemplateFileNames}

\* the section names a caller asks for
RequestedNames == TemplateFileNames \cup {nGamma}

TemplateRequests ==
    {[template |-> t, section_name |-> n] : t \in TemplateFiles, n \in RequestedNames}

InitTemplateFlow ==
    /\ op = "none"
    /\ tpl = None
    /\ gen \in FlowResponses
    /\ inp = None
    /\ out = None
    /\ flow \in Flows
    /\ request \in TemplateRequests
    /\ returned = NoResult
    /\ VerifyIdle
    /\ ExtractIdle
    /\ ParserIdle
    /\ ChunkerIdle
    /\ StoreIdle

\* TemplateParser(template_path) and get_section_structure(section_name)
\* (llama_agent_flow.py 783-784), then template_content (786-790)
ResolveTemplateSection ==
    /\ tcontent' = request.template
    /\ toc' = ExtractToc(toc, request.template)
    /\ glossary' = glossary   \* no line starts a glossary
    /\ sections' = ParseMarkdownTemplate(sections, request.template)
    /\ lookup' = [returned |-> TRUE, name |-> request.section_name,
                  structure |-> GetSectionStructure(sections', request.section_name)]
    /\ tpl' = IF lookup'.structure.found
              THEN ToTableLines(lookup'.structure.content_template)
              ELSE None

\* process_section(section_name, template_content) returning its dictionary
SectionResult(name, markdown) ==
    [returned |-> TRUE, section_name |-> name, generated_markdown |-> markdown]

\* generate_with_template(template_path, section_name)
GenerateWithTemplate ==
    /\ op = "none"
    /\ ResolveTemplateSection
    /\ \E raised \in BOOLEAN :
         /\ inp' = PreservedContent(gen, raised)
         /\ out' = GeneratedMarkdown(tpl', gen, raised)
    /\ returned' = SectionResult(request.section_name, out')
    /\ op' = "generate"
    /\ UNCHANGED <<gen, flow, request, verVars, extVars, chkVars, stoVars>>

\* the results verify_generated_content can give process_section_with_verification
VerificationOutcomes(f) ==
    IF ~(f.enable_verification /\ f.agent) THEN {DisabledVerification}
    ELSE IF ~f.llm THEN {NoLLMVerification}
    ELSE {FailedVerification}
         \cup {AggregatedVerification(
                   [i \in 1..Len(ExtractClaims(lines)) |-> DefaultConfidence], lines) :
               lines \in Readings}

\* generate_with_template_verified(template_path, section_name)
GenerateWithTemplateVerified ==
    /\ op = "none"
    /\ ResolveTemplateSection
    /\ \E raised \in BOOLEAN :
         /\ inp' = PreservedContent(gen, raised)
         /\ out' = GeneratedMarkdown(tpl', gen, raised)
    /\ vresult' \in VerificationOutcomes(flow)
    /\ returned' = FlowResult(out', vresult')
    /\ op' = "generate_verified"
    /\ UNCHANGED <<gen, flow, request, vcontent, vconfs, extVars, chkVars, stoVars>>

NextTemplateFlow ==
    \/ GenerateWithTemplate
    \/ GenerateWithTemplateVerified

SpecTemplateFlow == InitTemplateFlow /\ [][NextTemplateFlow]_vars

\* the section found is the one the caller named
NamesTheSection(structure, name) == LowerText(structure.name) = LowerText(name)

\* C17: when the requested name matches no section of the template,
\* generate_with_template and generate_with_template_verified report an
\* error and generate nothing; a name that is resolved is resolved to the
\* section it names, never to another one.
C17_UnresolvableNameIsAnError ==
    op \in {"generate", "generate_verified"} =>
        /\ ~lookup.structure.found => ~returned.returned /\ out = None
        /\ lookup.structure.found => NamesTheSection(lookup.structure, request.section_name)

\* a name no section has: the section is generated all the same
C17_GeneratesForUnknownName ==
    /\ op \in {"generate", "generate_verified"}
    /\ ~lookup.structure.found
    /\ returned.returned
    /\ returned.generated_markdown # None

\* 'Alpha Beta' asked of a template with 'Alpha' only: the table of 'Alpha'
\* is the template of the generation
C17_GeneratesForAnotherSection ==
    /\ op = "generate"
    /\ request.section_name = nAlphaBeta
    /\ lookup.structure.found
    /\ lookup.structure.name = nAlpha
    /\ tpl = <<RowDoseRes, SepLine>>

-----------------------------------------------------------------------------
(* DocumentAgentFlow: process_section and process_multiple_sections *)

MaxBatchNames == 2
MinTemplateLength == 50

\* re.sub(r'\n{3,}', '\n\n', content)
RECURSIVE CollapseNewlines(_)
CollapseNewlines(s) ==
    IF Len(s) < 3 THEN s
    ELSE IF SubSeq(s, 1, 3) = <<"\n", "\n", "\n">> THEN CollapseNewlines(Tail(s))
    ELSE <<Head(s)>> \o CollapseNewlines(Tail(s))

\* _fill_template for a section without fields whose template has no
\* placeholder in braces: the whitespace clean-up of lines 100-102
FillTemplate(template) == StripText(CollapseNewlines(template))

\* re.match(r'^\s*[-*+]\s+', line)
ListItem(line) ==
    LET t == LStripText(line)
    IN  Len(t) >= 2 /\ t[1] \in {"-", "*", "+"} /\ IsSpace(t[2])

\* _extract_structure_from_template: the list items and table lines of the
\* template, None without any (the templates have no backquote, so no line
\* opens a code block)
ExtractStructureFromTemplate(template) ==
    LET lines == SplitText(template, <<"\n">>)
        kept == SelectSeq(lines, LAMBDA line :
                    ListItem(line) \/ Contains(line, <<"|">>))
    IN  JoinWith(kept, <<"\n">>)

ContentNotFound == <<"[", "C", "o", "n", "t", "e", "n", "t", " ", "n", "o", "t", " ", "f", "o", "u", "n", "d", " ", "i", "n", " ", "t", "e", "m", "p", "l", "a", "t", "e", "]">>

\* '#' * level
RECURSIVE Hashes(_)
Hashes(level) == IF level <= 0 THEN <<>> ELSE <<"#">> \o Hashes(level - 1)

\* generate_section(section_name, extracted_data) in the style 'markdown',
\* content the '_content' of the extracted data
GenerateSection(dict, name, content) ==
    LET structure == GetSectionStructure(dict, name)
        template == structure.content_template
        filled == FillTemplate(template)
        outline == ExtractStructureFromTemplate(template)
        generated ==
            IF Len(StripText(filled)) < MinTemplateLength /\ content # <<>>
            THEN IF StripText(template) # <<>> /\ outline # <<>>
                 THEN outline \o <<"\n", "\n">> \o content
                 ELSE content
            ELSE filled
    IN  IF ~structure.found
        THEN <<"#", "#", " ">> \o name \o <<"\n", "\n">> \o ContentNotFound
        ELSE IF StartsWith(generated, <<"#">>) THEN generated
        ELSE Hashes(structure.level) \o <<" ">> \o structure.name \o <<"\n", "\n">> \o generated

\* process_section(section_name): the ValueError of line 69, or the
\* dictionary returned
ProcessedSection(dict, name, content) ==
    IF ~GetSectionStructure(dict, name).found
    THEN [raised |-> TRUE, section_name |-> name]
    ELSE [raised |-> FALSE, section_name |-> name,
          generated_markdown |-> GenerateSection(dict, name, content)]

\* the '_content' extract_section_data returns: nothing retrieved, or text
ExtractedContents == {<<>>, <<"F", "o", "u", "n", "d", " ", "t", "e", "x", "t">>}

BatchNames == {<<>>} \cup SeqsUpTo(RequestedNames, MaxBatchNames)

\* results[section_name] = result: the result of the last call for a name
LastResult(names, results, name) ==
    results[CHOOSE i \in 1..Len(names) :
                /\ names[i] = name
                /\ \A j \in (i + 1)..Len(names) : names[j] # name]

\* process_multiple_sections(section_names): the exception of the first
\* section that is not found leaves the loop and the function
MultipleSections(dict, names, contents) ==
    LET results == [i \in 1..Len(names) |-> ProcessedSection(dict, names[i], contents[i])]
        failed == {i \in 1..Len(names) : results[i].raised}
    IN  IF failed # {}
        THEN [returned |-> FALSE, raised |-> TRUE,
              section_name |-> names[CHOOSE i \in failed : \A j \in failed : i <= j]]
        ELSE [returned |-> TRUE, raised |-> FALSE,
              sections |-> [n \in {names[i] : i \in 1..Len(names)} |->
                               LastResult(names, results, n)],
              full_document |-> JoinWith([i \in 1..Len(names) |-> results[i].generated_markdown],
                                         <<"\n", "\n">>),
              section_count |-> Len(names)]

\* DocumentAgentFlow(template_path): the template is parsed
NewDocumentAgentFlow ==
    /\ op = "none"
    /\ \E t \in TemplateFiles : LoadContent(t)
    /\ op' = "flow"
    /\ UNCHANGED <<tblVars, verVars, extVars, pipelineVars>>

ProcessMultipleSections ==
    /\ op = "flow"
    /\ \E names \in BatchNames :
         \E contents \in [1..Len(names) -> ExtractedContents] :
            /\ request' = names
            /\ returned' = MultipleSections(sections, names, contents)
    /\ op' = "batch"
    /\ UNCHANGED <<flow, tblVars, verVars, extVars, parVars, chkVars, stoVars>>

NextBatch ==
    \/ NewDocumentAgentFlow
    \/ ProcessMultipleSections

SpecBatch == InitParser /\ [][NextBatch]_vars

\* C16: when a requested section name is not found in the template,
\* process_multiple_sections still returns, with a generated section for
\* every requested name that is found.
C16_BatchPartialSuccess ==
    op = "batch" =>
        \A i \in 1..Len(request) :
            GetSectionStructure(sections, request[i]).found =>
                /\ returned.returned
                /\ request[i] \in DOMAIN returned.sections
                /\ returned.sections[request[i]].generated_markdown # <<>>

\* a batch of one section of the template and one unknown name
C16_BatchAborted ==
    /\ op = "batch"
    /\ request = <<nBeta, nGamma>>
    /\ GetSectionStructure(sections, nBeta).found
    /\ returned.raised

-----------------------------------------------------------------------------
(* VectorStore: add_chunks *)

MaxChunks == 3
MaxCalls == 3
DefaultBatchSize == 32

\* client.upsert of one point: a point with the id of a stored point takes
\* its place, any other is added
UpsertPoint(stored, point) ==
    IF \E j \in 1..Len(stored) : stored[j].id = point.id
    THEN [j \in 1..Len(stored) |-> IF stored[j].id = point.id THEN point ELSE stored[j]]
    ELSE Append(stored, point)

\* an id that counts within the batch only
PointIdWithinBatch(next_id, i, idx) == next_id + idx

\* line 109
PointId(next_id, i, idx) == next_id + i + idx

\* lines 107-133 and 136-139: the points of the batch chunks[i:i + batch_size],
\* from its idx-th on, upserted
RECURSIVE UpsertBatch(_, _, _, _, _, _)
UpsertBatch(stored, call, total, next_id, i, idx) ==
    IF i + idx >= total THEN stored
    ELSE UpsertBatch(UpsertPoint(stored, [id |-> PointId(next_id, i, idx),
                                          chunk |-> [call |-> call, index |-> i + idx]]),
                     call, total, next_id, i, idx + 1)

\* line 94: for i in range(0, total_chunks, batch_size)
RECURSIVE UpsertBatches(_, _, _, _, _, _)
UpsertBatches(stored, call, total, batch_size, next_id, i) ==
    IF i >= total THEN stored
    ELSE UpsertBatches(UpsertBatch(stored, call, Min(total, i + batch_size), next_id, i, 0),
                       call, total, batch_size, next_id, i + batch_size)

\* add_chunks(chunks, batch_size) as the call-th call, chunks a list of
\* total chunks; batch_size 0 stands for None
AddedChunks(stored, call, total, batch_size) ==
    IF total = 0 THEN stored
    ELSE UpsertBatches(stored, call, total,
                       IF batch_size = 0 THEN DefaultBatchSize ELSE batch_size,
                       Len(stored), 0)

BatchSizes == {0, 1, 2}

\* VectorStore() on a collection that does not exist yet
InitStore ==
    /\ op = "none"
    /\ points = <<>>
    /\ TablesIdle
    /\ VerifyIdle
    /\ ExtractIdle
    /\ ParserIdle
    /\ ChunkerIdle
    /\ FlowIdle

\* add_chunks; request lists the calls made, each with the number of its
\* chunks, its batch size and the point count at its start
AddChunks ==
    /\ op \in {"none", "add_chunks"}
    /\ Len(request) < MaxCalls
    /\ \E total \in 0..MaxChunks, batch_size \in BatchSizes :
         /\ request' = Append(request, [chunks |-> total, batch_size |-> batch_size,
                                        count |-> Len(points)])
         /\ points' = AddedChunks(points, Len(request) + 1, total, batch_size)
    /\ op' = "add_chunks"
    /\ UNCHANGED <<flow, returned, tblVars, verVars, extVars, parVars, chkVars>>

NextStore == AddChunks

SpecStore == InitStore /\ [][NextStore]_vars

\* the point count after the call-th call
CountAfter(call) ==
    IF call = Len(request) THEN Len(points) ELSE request[call + 1].count

\* C19: in any sequence of add_chunks calls on a collection that starts
\* empty, the k-th chunk of a call is stored under the point count at the
\* start of the call plus k and stays there, all ids are distinct, and each
\* call raises the point count by the number of its chunks.
C19_AppendOnlyIds ==
    /\ \A call \in 1..Len(request) :
         /\ \A k \in 0..(request[call].chunks - 1) :
               \E j \in 1..Len(points) :
                  /\ points[j].id = request[call].count + k
                  /\ points[j].chunk = [call |-> call, index |-> k]
         /\ CountAfter(call) = request[call].count + request[call].chunks
    /\ \A i, j \in 1..Len(points) : points[i].id = points[j].id => i = j

\* a second call of three chunks in batches of two, after a call of two
C19_Witness ==
    /\ Len(request) = 2
    /\ request[1].chunks = 2
    /\ request[2] = [chunks |-> 3, batch_size |-> 2, count |-> 2]
    /\ Len(points) = 5
    /\ points[5] = [id |-> 4, chunk |-> [call |-> 2, index |-> 2]]

-----------------------------------------------------------------------------
(* VerificationAgent: the confidence and the breakdown of a result *)

\* 0 <= confidence <= 1
WithinUnitInterval(ratio) ==
    /\ ratio.den > 0
    /\ ratio.num >= 0
    /\ ratio.num <= 100 * ratio.den

-----------------------------------------------------------------------------
(* DataExtractor: _build_search_queries *)

MaxFields == 2

\* the hints of _analyze_section_context, in the order it appends them
hMethodology == <<"m", "e", "t", "h", "o", "d", "o", "l", "o", "g", "y">>
hResults == <<"r", "e", "s", "u", "l", "t", "s">>
hMaterials == <<"m", "a", "t", "e", "r", "i", "a", "l", "s">>
hVariables == <<"v", "a", "r", "i", "a", "b", "l", "e", "s">>
ContentTypeHints == <<hMethodology, hResults, hMaterials, hVariables>>

fDoseField == <<"d", "o", "s", "e">>
fLotField == <<"l", "o", "t">>

\* the entries of a list that a set of its positions selects, in its order
RECURSIVE Selected(_, _, _)
Selected(list, positions, i) ==
    IF i > Len(list) THEN <<>>
    ELSE (IF i \in positions THEN <<list[i]>> ELSE <<>>) \o Selected(list, positions, i + 1)

SuggestedContentTypes ==
    {Selected(ContentTypeHints, P, 1) : P \in SUBSET (1..Len(ContentTypeHints))}

FieldLists == {<<>>} \cup SeqsUpTo({[name |-> fDoseField], [name |-> fLotField]}, MaxFields)

\* the path of a section of level 0 (no path), 1, 2 and 3
SectionPaths(name) == {<<>>, <<name>>, <<nAlpha, name>>, <<nGamma, nAlpha, name>>}

QueryRequests ==
    {[section_name |-> n,
      section_structure |-> [context |-> [suggested_content_types |-> h],
                             fields |-> f, path |-> p]] :
        n \in {nAlpha, nBeta}, h \in SuggestedContentTypes, f \in FieldLists,
        p \in SectionPaths(nAlpha) \cup SectionPaths(nBeta)}

\* a list of queries that is not cut
UncappedSearchQueries(name, structure) ==
    <<name>>
    \o [i \in 1..Len(structure.context.suggested_content_types) |->
           name \o <<" ">> \o structure.context.suggested_content_types[i]]
    \o [i \in 1..Len(structure.fields) |-> name \o <<" ">> \o structure.fields[i].name]
    \o (IF Len(structure.path) > 1
        THEN <<JoinWith(SubSeq(structure.path, Len(structure.path) - 1, Len(structure.path)),
                        <<" ">>)>>
        ELSE <<>>)

\* _build_search_queries(section_name, section_structure)
BuildSearchQueries(name, structure) ==
    LET queries ==
            <<name>>
            \o [i \in 1..Len(structure.context.suggested_content_types) |->
                   name \o <<" ">> \o structure.context.suggested_content_types[i]]
            \o [i \in 1..Len(structure.fields) |-> name \o <<" ">> \o structure.fields[i].name]
            \o (IF structure.path # <<>> /\ Len(structure.path) > 1
                THEN <<JoinWith(SubSeq(structure.path, Len(structure.path) - 1,
                                       Len(structure.path)), <<" ">>)>>
                ELSE <<>>)
    IN  SubSeq(queries, 1, Min(MaxQueries, Len(queries)))

InitQueries ==
    /\ op = "none"
    /\ request \in QueryRequests
    /\ returned = NoResult
    /\ flow = <<>>
    /\ TablesIdle
    /\ VerifyIdle
    /\ ExtractIdle
    /\ ParserIdle
    /\ ChunkerIdle
    /\ StoreIdle

BuildQueries ==
    /\ op = "none"
    /\ returned' = [returned |-> TRUE,
                    queries |-> BuildSearchQueries(request.section_name,
                                                   request.section_structure)]
    /\ op' = "queries"
    /\ UNCHANGED <<flow, request, tblVars, verVars, extVars, parVars, chkVars, stoVars>>

NextQueries == BuildQueries

SpecQueries == InitQueries /\ [][NextQueries]_vars

\* C22: _build_search_queries returns from one to five queries: the section
\* name, then the name with each content-type hint, then the name with each
\* field name, then the last two segments of a path of more than one
\* segment, the list cut after the fifth.
C22_QueryConstruction ==
    op = "queries" =>
        LET q == returned.queries
            name == request.section_name
            hints == request.section_structure.context.suggested_content_types
            fields == request.section_structure.fields
            path == request.section_structure.path
            tail == IF Len(path) > 1 THEN 1 ELSE 0
        IN  /\ Len(q) >= 1 /\ Len(q) <= 5
            /\ Len(q) = Min(5, 1 + Len(hints) + Len(fields) + tail)
            /\ q[1] = name
            /\ \A i \in 2..Len(q) :
                 IF i - 1 <= Len(hints)
                 THEN q[i] = name \o <<" ">> \o hints[i - 1]
                 ELSE IF i - 1 - Len(hints) <= Len(fields)
                      THEN q[i] = name \o <<" ">> \o fields[i - 1 - Len(hints)].name
                      ELSE q[i] = path[Len(path) - 1] \o <<" ">> \o path[Len(path)]

\* two hints, two fields and a path of two segments: the query of the path
\* is the sixth and is cut
C22_Witness ==
    /\ op = "queries"
    /\ Len(request.section_structure.context.suggested_content_types) = 2
    /\ Len(request.section_structure.fields) = 2
    /\ Len(request.section_structure.path) = 2
    /\ Len(returned.queries) = 5
    /\ returned.queries[5] = request.section_name \o <<" ">> \o fLotField

-----------------------------------------------------------------------------
(* _enforce_template_table_count: which of the generated tables are kept *)

\* | Dose | mg |: one of the two header tokens of | Dose | Res |
RowDoseMg == << <<>>, wDose, wMg, <<>> >>

RankedLinePool == {TextLine, RowDoseRes, RowDoseMg, RowIdMg}

RankedTemplates ==
    { <<RowDoseRes, SepLine>>,
      <<RowDoseRes, SepLine, Blank, RowIdMg, SepLine>> }

InitRanking ==
    /\ tpl \in RankedTemplates
    /\ gen \in SeqsUpTo(RankedLinePool, MaxGenLines)
    /\ op = "none"
    /\ inp = None
    /\ out = None
    /\ VerifyIdle
    /\ ExtractIdle
    /\ ParserIdle
    /\ PipelineIdle

NextRanking == EnforceTableCount

SpecRanking == InitRanking /\ [][NextRanking]_vars

\* the header tokens of a generated table: those of its header row
RunHeaders(content, run) ==
    UNION {HeaderSet(content[i]) : i \in HeaderRows(content, run)}

\* the overlap ratio of a generated table against a template table is
\* shared header tokens / template header tokens; that of run a against
\* template table s is lower than that of run b against template table t
OverlapLower(content, a, s, b, t) ==
    LET sh == TemplateHeaders(s)
        th == TemplateHeaders(t)
    IN  Cardinality(sh \cap RunHeaders(content, a)) * Max(Cardinality(th), 1)
          < Cardinality(th \cap RunHeaders(content, b)) * Max(Cardinality(sh), 1)

\* the best overlap of run a is lower than the best overlap of run b
RanksLower(content, a, b, tts) ==
    \E t \in 1..Len(tts) : \A s \in 1..Len(tts) :
        OverlapLower(content, a, tts[s], b, tts[t])

\* C23: when the generated tables exceed the declared count, no table is
\* kept in place of a removed table whose header-overlap ratio against the
\* template tables is higher.
C23_KeepsHighestOverlap ==
    (op = "enforce" /\ DeclaredTables >= 1 /\ Cardinality(TableRuns(inp)) > DeclaredTables)
        => \E gone \in SUBSET TableRuns(inp) :
              /\ out = Join(Without(inp, UNION gone))
              /\ \A r \in gone : \A k \in TableRuns(inp) \ gone :
                    ~RanksLower(inp, k, r, ExtractTemplateTables(tpl))

\* '| Dose | mg |' before '| Dose | Res |' under the template '| Dose | Res |':
\* the table sharing one token of two is kept, the one sharing both removed
C23_LowerOverlapKept ==
    /\ op = "enforce"
    /\ tpl = <<RowDoseRes, SepLine>>
    /\ inp = <<RowDoseMg, TextLine, RowDoseRes>>
    /\ out = <<RowDoseMg, TextLine>>

-----------------------------------------------------------------------------
(* VectorStore: two add_chunks invocations against one collection *)

\* the points a collection holds before the two ingestion runs
StoredBefore(n) == [j \in 1..n |-> [id |-> j - 1, chunk |-> [call |-> 0, index |-> j - 1]]]

\* an add_chunks invocation about to start: a list of chunks and a batch size
IngestionRuns ==
    {[chunks |-> total, batch_size |-> IF b = 0 THEN DefaultBatchSize ELSE b,
      pc |-> "start", next_id |-> 0, i |-> 0] :
        total \in 0..MaxChunks, b \in BatchSizes}

InitIngestion ==
    /\ op = "none"
    /\ \E n \in 0..1 :
         /\ points = StoredBefore(n)
         /\ request \in [initial : {n}, runs : [1..2 -> IngestionRuns]]
    /\ flow = <<>>
    /\ returned = NoResult
    /\ TablesIdle
    /\ VerifyIdle
    /\ ExtractIdle
    /\ ParserIdle
    /\ ChunkerIdle

\* lines 81-91 of run p: the return without chunks, else get_collection and
\* next_id = points_count
ReadPointCount(p) ==
    /\ request.runs[p].pc = "start"
    /\ request' = [request EXCEPT !.runs[p] =
                      IF @.chunks = 0 THEN [@ EXCEPT !.pc = "done"]
                      ELSE [@ EXCEPT !.pc = "upsert", !.next_id = Len(points)]]
    /\ op' = "read_count"
    /\ UNCHANGED <<points, flow, returned, tblVars, verVars, extVars, parVars, chkVars>>

\* lines 94-139 of run p: one turn of the loop, the upsert of the batch
\* chunks[i:i + batch_size]
UpsertNextBatch(p) ==
    LET run == request.runs[p]
    IN  /\ run.pc = "upsert"
        /\ points' = UpsertBatch(points, p, Min(run.chunks, run.i + run.batch_size),
                                 run.next_id, run.i, 0)
        /\ request' = [request EXCEPT !.runs[p] =
                          [@ EXCEPT !.i = run.i + run.batch_size,
                                    !.pc = IF run.i + run.batch_size >= run.chunks
                                           THEN "done" ELSE "upsert"]]
        /\ op' = "upsert"
        /\ UNCHANGED <<flow, returned, tblVars, verVars, extVars, parVars, chkVars>>

NextIngestion ==
    \E p \in 1..2 :
        \/ ReadPointCount(p)
        \/ UpsertNextBatch(p)

SpecIngestion == InitIngestion /\ [][NextIngestion]_vars

\* the ids run p writes
IdRange(run) == run.next_id..(run.next_id + run.chunks - 1)

\* C24: when two add_chunks invocations interleave on one collection, the
\* id ranges they write are disjoint, every chunk of both stays stored, and
\* the final point count is the initial count plus the chunks of both.
C24_ConcurrentRunsDisjoint ==
    (op # "none" /\ \A p \in 1..2 : request.runs[p].pc = "done") =>
        /\ (request.runs[1].chunks > 0 /\ request.runs[2].chunks > 0)
              => IdRange(request.runs[1]) \cap IdRange(request.runs[2]) = {}
        /\ \A p \in 1..2 : \A k \in 0..(request.runs[p].chunks - 1) :
              \E j \in 1..Len(points) : points[j].chunk = [call |-> p, index |-> k]
        /\ Len(points) = request.initial + request.runs[1].chunks + request.runs[2].chunks

\* both runs have read the same point count and the second has overwritten
\* the point of the first
C24_Overwritten ==
    /\ \A p \in 1..2 : request.runs[p].pc = "done" /\ request.runs[p].chunks = 1
    /\ request.runs[1].next_id = request.runs[2].next_id
    /\ Len(points) = request.initial + 1

-----------------------------------------------------------------------------
(* SmartChunker: _chunk_variables *)

MaxVariables == 3

\* variables of 0, 1, 1, 2 and 3 tokens
vFlag == [key |-> <<"x">>, value |-> <<>>]
vBuffer == [key |-> <<"B", "u", "f", "f", "e", "r">>, value |-> <<"5", "0", " ", "m", "M">>]

VariablePool == {vFlag, vPh, vLot, vDose, vBuffer}

VariableLists == {<<>>} \cup SeqsUpTo(VariablePool, MaxVariables)

VariableChunkerConfigs ==
    {[chunk_size |-> size, chunk_overlap |-> 1, max_chunk_size |-> 4] : size \in {1, 2, 3}}

\* SmartChunker(chunk_size, ...)._chunk_variables(variables, metadata)
ChunkVariablesOfDocument ==
    /\ op = "none"
    /\ \E cfg \in VariableChunkerConfigs, variables \in VariableLists :
        /\ chunker' = cfg
        /\ document' = [variables |-> variables]
        /\ chunked' = <<ChunkVariables(variables, cfg)>>
    /\ op' = "chunk_variables"
    /\ UNCHANGED <<tblVars, verVars, extVars, parVars, flowVars, stoVars>>

NextChunkVariables == ChunkVariablesOfDocument

SpecChunkVariables == InitChunker /\ [][NextChunkVariables]_vars

\* the sum of the sizes _chunk_variables counts for the variables of a chunk
RECURSIVE SummedSize(_)
SummedSize(texts) ==
    IF texts = <<>> THEN 0 ELSE CountTokens(texts[1]) + SummedSize(Tail(texts))

\* C25: the variables of the chunks of _chunk_variables, in chunk order, are
\* the variables passed, each whole and once, in their order, and a chunk
\* of more than one variable has a summed variable size of at most
\* chunk_size.
C25_VariablesWholeInOrder ==
    op = "chunk_variables" =>
        /\ RowsOfChunks(chunked[1])
             = [i \in 1..Len(document.variables) |-> VariableText(document.variables[i])]
        /\ \A j \in 1..Len(chunked[1]) :
             /\ chunked[1][j].chunk_type = "variables"
             /\ LET held == SplitText(chunked[1][j].text, <<"\n">>)
                IN  Len(held) > 1 => SummedSize(held) <= chunker.chunk_size

\* a variable larger than chunk_size alone in its chunk, between a chunk of
\* one variable and a chunk of two
C25_Witness ==
    /\ op = "chunk_variables"
    /\ chunker.chunk_size = 2
    /\ document.variables = <<vPh, vBuffer, vLot>>
    /\ Len(chunked[1]) = 3
    /\ chunked[1][2].text = VariableText(vBuffer)

-----------------------------------------------------------------------------
(* VerificationAgent: _verify_claim_against_sources, the response parsed *)

\* str.upper()
UpperText(s) == [i \in 1..Len(s) |-> Upper(s[i])]

\* lines 426-434: the first of the three words found in the response
ResponseStatus(text) ==
    IF Contains(UpperText(text), <<"S", "U", "P", "P", "O", "R", "T", "E", "D">>) THEN "SUPPORTED"
    ELSE IF Contains(UpperText(text), <<"P", "A", "R", "T", "I", "A", "L">>) THEN "PARTIAL"
    ELSE IF Contains(UpperText(text), <<"N", "O", "T", "_", "F", "O", "U", "N", "D">>) THEN "NOT_FOUND"
    ELSE "UNKNOWN"

\* [:\s]* from position i on: the position after it
RECURSIVE AfterColonsAndSpaces(_, _)
AfterColonsAndSpaces(s, i) ==
    IF i <= Len(s) /\ (s[i] = ":" \/ IsSpace(s[i])) THEN AfterColonsAndSpaces(s, i + 1) ELSE i

ConfidenceKeywords == <<<<"c", "o", "n", "f", "i", "d", "e", "n", "c", "e">>, <<"c", "o", "n", "f">>, <<"s", "c", "o", "r", "e">>>>

\* (?:confidence|conf|score)[:\s]*(\d+\.?\d*) matched at position i, case
\* ignored: the positions where the number can start, one for each
\* alternative that matches
KeywordNumberStarts(s, i) ==
    {AfterColonsAndSpaces(s, i + Len(ConfidenceKeywords[k])) :
        k \in {j \in 1..Len(ConfidenceKeywords) :
                  LET word == ConfidenceKeywords[j]
                      from == AfterColonsAndSpaces(s, i + Len(word))
                  IN  /\ i + Len(word) - 1 <= Len(s)
                      /\ LowerText(SubSeq(s, i, i + Len(word) - 1)) = word
                      /\ DigitRun(s, from) > 0}}

\* \d+\.?\d* from position j on
NumberLexeme(s, j) ==
    LET whole == DigitRun(s, j)
        point == j + whole <= Len(s) /\ s[j + whole] = "."
        last == IF point THEN j + whole + DigitRun(s, j + whole + 1) ELSE j + whole - 1
    IN  SubSeq(s, j, last)

\* \b(0\.\d+)\b matched at position i: the length of the digits after the
\* point, 0 without a match
ZeroPointDigits(s, i) ==
    LET digits == DigitRun(s, i + 2)
    IN  IF /\ i + 2 <= Len(s)
           /\ s[i] = "0" /\ s[i + 1] = "."
           /\ (i = 1 \/ ~IsWordChar(s[i - 1]))
           /\ digits > 0
           /\ (i + 2 + digits > Len(s) \/ ~IsWordChar(s[i + 2 + digits]))
        THEN digits ELSE 0

\* lines 438-440: group(1) of the match of the first pattern, else of the
\* second, in a sequence that is empty without a match
ConfidenceLexeme(s) ==
    LET keyed == {i \in 1..Len(s) : KeywordNumberStarts(s, i) # {}}
        plain == {i \in 1..Len(s) : ZeroPointDigits(s, i) > 0}
    IN  IF keyed # {}
        THEN LET i == CHOOSE x \in keyed : \A y \in keyed : x <= y
                 starts == KeywordNumberStarts(s, i)
             IN  <<NumberLexeme(s, CHOOSE j \in starts : \A k \in starts : j >= k)>>
        ELSE IF plain # {}
        THEN LET i == CHOOSE x \in plain : \A y \in plain : x <= y
             IN  <<SubSeq(s, i, i + 1 + ZeroPointDigits(s, i))>>
        ELSE <<>>

DigitValue(ch) == CHOOSE d \in 0..9 : DigitChar(d) = ch

RECURSIVE WholeValue(_)
WholeValue(digits) ==
    IF digits = <<>> THEN 0
    ELSE 10 * WholeValue(SubSeq(digits, 1, Len(digits) - 1)) + DigitValue(digits[Len(digits)])

\* float(lexeme) in hundredths, for a lexeme of at most two decimals
FloatHundredths(lexeme) ==
    LET parts == SplitText(lexeme, <<".">>)
        decimals == IF Len(parts) > 1 THEN parts[2] ELSE <<>>
    IN  100 * WholeValue(parts[1])
          + (IF Len(decimals) >= 1 THEN 10 * DigitValue(decimals[1]) ELSE 0)
          + (IF Len(decimals) >= 2 THEN DigitValue(decimals[2]) ELSE 0)

\* lines 438-447: the number the response is read to state, -1 without one
ExtractedConfidence(text) ==
    IF ConfidenceLexeme(text) = <<>> THEN -1 ELSE FloatHundredths(ConfidenceLexeme(text)[1])

\* a default that a stated confidence never replaces
VerifiedConfidenceDefaultOnly(claimType, answer) ==
    IF answer.raised THEN DefaultConfidence
    ELSE ClaimConfidence(claimType, ResponseStatus(answer.text), -1)

\* _verify_claim_against_sources(claim): the confidence returned for the
\* answer of the query engine, or for its failure (lines 463-470)
VerifiedConfidence(claimType, answer) ==
    IF answer.raised THEN DefaultConfidence
    ELSE ClaimConfidence(claimType, ResponseStatus(answer.text),
                         ExtractedConfidence(answer.text))

\* Answers in the format asked for, STATUS | CONFIDENCE | REASON, and some
\* that name the confidence.  stated is the confidence written, in
\* hundredths, -1 without one.
StatusWords == {<<"S", "U", "P", "P", "O", "R", "T", "E", "D">>, <<"P", "A", "R", "T", "I", "A", "L">>, <<"N", "O", "T", "_", "F", "O", "U", "N", "D">>, <<"U", "N", "C", "L", "E", "A", "R">>}

ConfidenceFields ==
    {[text |-> <<" ", "|", " ", "0", ".", "9", "5", " ", "|", " ", "f", "o", "u", "n", "d">>, stated |-> 95],
     [text |-> <<" ", "|", " ", "0", ".", "6", "5", " ", "|", " ", "f", "o", "u", "n", "d">>, stated |-> 65],
     [text |-> <<" ", "|", " ", "0", ".", "1", " ", "|", " ", "f", "o", "u", "n", "d">>, stated |-> 10],
     [text |-> <<" ", "|", " ", "1", ".", "0", " ", "|", " ", "f", "o", "u", "n", "d">>, stated |-> 100],
     [text |-> <<" ", "|", " ", "c", "o", "n", "f", "i", "d", "e", "n", "c", "e", ":", " ", "1", ".", "0", " ", "|", " ", "f", "o", "u", "n", "d">>, stated |-> 100],
     [text |-> <<" ", "|", " ", "S", "c", "o", "r", "e", " ", "0", ".", "3", " ", "|", " ", "f", "o", "u", "n", "d">>, stated |-> 30],
     [text |-> <<" ", "|", " ", "c", "o", "n", "f", "i", "d", "e", "n", "c", "e", " ", "8", "5", " ", "|", " ", "f", "o", "u", "n", "d">>, stated |-> 8500],
     [text |-> <<" ", "|", " ", "f", "o", "u", "n", "d">>, stated |-> -1]}

Answers ==
    {[raised |-> FALSE, text |-> w \o f.text, stated |-> f.stated] :
        w \in StatusWords, f \in ConfidenceFields}
    \cup {[raised |-> TRUE, text |-> <<>>, stated |-> -1]}

\* generated contents of one, two and three claims
ClaimContents ==
    {<<vNum7>>, <<vRowHead, vRow150>>, <<vFact, vNum150>>, <<vRowHead, vRow150, vFact>>,
     <<vRowHead, vRow150, vRow150>>}

InitClaims ==
    /\ vcontent \in ClaimContents
    /\ vconfs = <<>>
    /\ vresult = NoResult
    /\ op = "none"
    /\ TablesIdle
    /\ ExtractIdle
    /\ ParserIdle
    /\ PipelineIdle

\* verify_generated_content with an LLM and an index, request the answers
\* of the query engine to the claims
VerifyClaims ==
    /\ op = "none"
    /\ \E answers \in [1..Len(ExtractClaims(vcontent)) -> Answers] :
          /\ request' = answers
          /\ vconfs' = [i \in 1..Len(ExtractClaims(vcontent)) |->
                           VerifiedConfidence(ExtractClaims(vcontent)[i], answers[i])]
    /\ vresult' = VerificationResult(vconfs', vcontent)
    /\ op' = "verify_claims"
    /\ UNCHANGED <<vcontent, flow, returned, tblVars, extVars, parVars, chkVars, stoVars>>

NextClaims == VerifyClaims

SpecClaims == InitClaims /\ [][NextClaims]_vars

\* the confidence of the i-th claim after classification and override
OverriddenConfidence(i) ==
    StatedConfidence(ResponseStatus(request[i].text), ExtractedConfidence(request[i].text))

\* C26 (as stated): a table-cell claim whose confidence c after
\* classification and override is below 0.7 ends with a confidence lower
\* than c and not below 0.2; every other claim keeps c.
C26_TableCellPenaltyReduces ==
    op = "verify_claims" =>
        \A i \in 1..Len(vconfs) :
            ~request[i].raised =>
                LET conf == OverriddenConfidence(i)
                IN  IF ExtractClaims(vcontent)[i] = "table_cell" /\ conf < 70
                    THEN vconfs[i] < conf /\ vconfs[i] >= 20
                    ELSE vconfs[i] = conf

\* C26 (amended): such a claim ends with max(0.2, c - 0.1): lower than c
\* when c is above 0.2, and 0.2 when c is 0.2 or less; every other claim
\* keeps c.
C26_TableCellPenaltyWithFloor ==
    op = "verify_claims" =>
        \A i \in 1..Len(vconfs) :
            ~request[i].raised =>
                LET conf == OverriddenConfidence(i)
                IN  IF ExtractClaims(vcontent)[i] = "table_cell" /\ conf < 70
                    THEN /\ vconfs[i] >= 20
                         /\ conf > 20 => vconfs[i] < conf /\ (conf >= 30 => vconfs[i] = conf - 10)
                         /\ conf <= 20 => vconfs[i] = 20
                    ELSE vconfs[i] = conf

\* table cells answered PARTIAL (0.6 becomes 0.5) and with a stated 0.1
\* (raised to the floor 0.2)
C26_Witness ==
    /\ op = "verify_claims"
    /\ vcontent = <<vRowHead, vRow150, vRow150>>
    /\ OverriddenConfidence(1) = 60 /\ vconfs[1] = 50
    /\ OverriddenConfidence(2) = 10 /\ vconfs[2] = 20

\* the default confidence of a status
DefaultOf(status) ==
    CASE status = "SUPPORTED" -> 90
      [] status = "PARTIAL" -> 60
      [] status = "NOT_FOUND" -> 20
      [] OTHER -> 50

\* C27: the confidence of a claim that is no table cell is the default of
\* the status of its answer, 0.9 / 0.6 / 0.2 and 0.5 without one, replaced
\* by the confidence the answer states exactly when that lies in [0, 1];
\* a claim whose verification fails has 0.5, and every claim is verified.
C27_PerClaimConfidence ==
    op = "verify_claims" =>
        /\ Len(vconfs) = Len(ExtractClaims(vcontent))
        /\ \A i \in 1..Len(vconfs) :
              IF request[i].raised THEN vconfs[i] = 50
              ELSE ExtractClaims(vcontent)[i] # "table_cell" =>
                      vconfs[i] = IF request[i].stated >= 0 /\ request[i].stated <= 100
                                  THEN request[i].stated
                                  ELSE DefaultOf(ResponseStatus(request[i].text))

\* 'SUPPORTED | 1.0 | found': the stated 1.0 is not read, the claim has 0.9
C27_StatedOneIgnored ==
    /\ op = "verify_claims"
    /\ vcontent = <<vNum7>>
    /\ request[1].text = <<"S", "U", "P", "P", "O", "R", "T", "E", "D", " ", "|", " ", "1", ".", "0", " ", "|", " ", "f", "o", "u", "n", "d">>
    /\ vconfs[1] = 90

-----------------------------------------------------------------------------
(* DataExtractor: _extract_field_data and _extract_value_from_text *)

\* Field names are letters, spaces and parentheses: the placeholders
\* {name} of a template hold any text without a closing brace.  A text of a
\* chunk is shorter than 100 characters, so that it is its own head.

fDoseMgField == <<"d", "o", "s", "e", " ", "(", "m", "g", ")">>
fDoseOpenField == <<"d", "o", "s", "e", " ", "(", "m", "g">>
FieldNames == {fDoseField, fLotField, fDoseMgField, fDoseOpenField}

FieldResult(text, score) == [text |-> [head |-> text, rest |-> ""], score |-> score]

FieldResults ==
    {FieldResult(<<"d", "o", "s", "e", ":", " ", "5", " ", "m", "g">> \o <<"\n">> \o <<"l", "o", "t", " ", "=", " ", "A", "1">>, 2),
     FieldResult(<<"t", "h", "e", " ", "d", "o", "s", "e", " ", "i", "s">> \o <<"\n">> \o <<" ", "7", " ", "m", "g">>, 1),
     FieldResult(<<"D", "o", "s", "e", " ", "m", "g", ":", " ", "9">>, 2),
     FieldResult(<<"d", "o", "s", "e", " ", "(", "m", "g", ")", " ", "i", "s", " ", "3">>, 1),
     FieldResult(<<"n", "o", " ", "v", "a", "l", "u", "e">>, 1),
     FieldResult(<<"d", "o", "s", "e", ":">> \o <<"\n">>, 2),
     FieldResult(<<"l", "o", "t", ":", " ">>, 1)}

\* the hits of the queries of a section without hints and path, one query
\* for the name of the section and one for each field: a query finds one
\* chunk or none
FieldRetrievals(fields) ==
    [1..(1 + Len(fields)) -> {<<>>} \cup {<<r>> : r \in FieldResults}]

FieldRequests ==
    {[fields |-> f] : f \in SeqsUpTo({[name |-> n] : n \in FieldNames}, MaxFields)}

ResultText(result) == result.text.head

\* re.compile of a pattern that starts with the name unescaped: an error for
\* a parenthesis without its partner
RECURSIVE OpenGroups(_, _, _)
OpenGroups(name, i, depth) ==
    IF depth < 0 THEN -1
    ELSE IF i > Len(name) THEN depth
    ELSE OpenGroups(name, i + 1,
                    depth + (IF name[i] = "(" THEN 1 ELSE IF name[i] = ")" THEN -1 ELSE 0))

Compiles(name) == OpenGroups(name, 1, 0) = 0

IsParen(ch) == ch \in {"(", ")"}

\* the characters the unescaped name matches
RECURSIVE GroupFree(_)
GroupFree(name) ==
    IF name = <<>> THEN <<>>
    ELSE (IF IsParen(Head(name)) THEN <<>> ELSE <<Head(name)>>) \o GroupFree(Tail(name))

\* the position of the parenthesis that closes the one at position p
RECURSIVE ClosingParen(_, _, _)
ClosingParen(name, q, depth) ==
    IF name[q] = ")" /\ depth = 1 THEN q
    ELSE ClosingParen(name, q + 1,
                      depth + (IF name[q] = "(" THEN 1 ELSE IF name[q] = ")" THEN -1 ELSE 0))

\* the span of the first group of the name within the characters it matches
FirstGroup(name) ==
    LET p == CHOOSE x \in 1..Len(name) : name[x] = "(" /\ \A y \in 1..(x - 1) : name[y] # "("
        q == ClosingParen(name, p, 0)
    IN  [from |-> Len(GroupFree(SubSeq(name, 1, p))) + 1,
         to |-> Len(GroupFree(SubSeq(name, 1, q)))]

\* \s* from position i on: the position after it
RECURSIVE AfterSpaces(_, _)
AfterSpaces(s, i) == IF i <= Len(s) /\ IsSpace(s[i]) THEN AfterSpaces(s, i + 1) ELSE i

\* \s*([^\n]+) or, with least = 1, \s+([^\n]+) from position k on: the
\* position where the group starts, 0 without a match.  The greedy \s takes
\* the white space and gives back as little as lets the group start.
ValueStart(s, k, least) ==
    LET w == AfterSpaces(s, k)
        back == {m \in (k + least)..Len(s) : s[m] # "\n"}
    IN  IF w - k < least THEN 0
        ELSE IF w <= Len(s) THEN w
        ELSE IF back # {} THEN CHOOSE m \in back : \A x \in back : m >= x
        ELSE 0

\* [^\n]+ from position v on: its last position
RECURSIVE ValueEnd(_, _)
ValueEnd(s, v) == IF v < Len(s) /\ s[v + 1] # "\n" THEN ValueEnd(s, v + 1) ELSE v

\* name literal at position i, case ignored
LiteralAt(s, i, literal) ==
    /\ i + Len(literal) - 1 <= Len(s)
    /\ LowerText(SubSeq(s, i, i + Len(literal) - 1)) = LowerText(literal)

\* rf'{field_name}\s*[seps]\s*([^\n]+)' matched at position i: the start of
\* the last group, 0 without a match
SeparatedValueAt(s, i, name, seps) ==
    LET sep == AfterSpaces(s, i + Len(GroupFree(name)))
    IN  IF LiteralAt(s, i, GroupFree(name)) /\ sep <= Len(s) /\ s[sep] \in seps
        THEN ValueStart(s, sep + 1, 0) ELSE 0

\* rf'{re.escape(field_name)}\s+is\s+([^\n]+)' matched at position i
IsValueAt(s, i, name) ==
    LET word == AfterSpaces(s, i + Len(name))
    IN  IF /\ LiteralAt(s, i, name)
           /\ word > i + Len(name)
           /\ LiteralAt(s, word, <<"i", "s">>)
        THEN ValueStart(s, word + 2, 1) ELSE 0

\* None of _extract_value_from_text, its exception, and a value
NoValue == [found |-> FALSE, raised |-> FALSE, value |-> <<>>]
RaisedError == [found |-> FALSE, raised |-> TRUE, value |-> <<>>]
Value(text) == [found |-> TRUE, raised |-> FALSE, value |-> text]

\* match.group(1).strip() of a match of one of the first two patterns at
\* position i: the first group is one of the name when the name has one
SeparatedGroup(s, i, name, v) ==
    IF \E x \in 1..Len(name) : name[x] = "("
    THEN Value(StripText(SubSeq(s, i + FirstGroup(name).from - 1, i + FirstGroup(name).to - 1)))
    ELSE Value(StripText(SubSeq(s, v, ValueEnd(s, v))))

\* re.search of one of the first two patterns
SearchSeparated(s, name, seps) ==
    LET at == {i \in 1..(Len(s) + 1) : SeparatedValueAt(s, i, name, seps) > 0}
    IN  IF at = {} THEN NoValue
        ELSE LET i == CHOOSE x \in at : \A y \in at : x <= y
             IN  SeparatedGroup(s, i, name, SeparatedValueAt(s, i, name, seps))

\* re.search of the third pattern
SearchIs(s, name) ==
    LET at == {i \in 1..(Len(s) + 1) : IsValueAt(s, i, name) > 0}
    IN  IF at = {} THEN NoValue
        ELSE LET i == CHOOSE x \in at : \A y \in at : x <= y
                 v == IsValueAt(s, i, name)
             IN  Value(StripText(SubSeq(s, v, ValueEnd(s, v))))

\* _extract_value_from_text(field_name, text)
ExtractValueFromText(name, text) ==
    IF ~Compiles(name) THEN RaisedError
    ELSE IF SearchSeparated(text, name, {":", "="}).found
    THEN SearchSeparated(text, name, {":", "="})
    ELSE IF SearchSeparated(text, name, {":"}).found
    THEN SearchSeparated(text, name, {":"})
    ELSE SearchIs(text, name)

\* _extract_field_data(field_name, field_info, results)
ExtractFieldData(name, results) ==
    LET chunks == {i \in 1..Len(results) :
                      Contains(LowerText(ResultText(results[i])), LowerText(name))}
    IN  IF chunks = {}
        THEN IF results # <<>> THEN ExtractValueFromText(name, ResultText(results[1]))
             ELSE NoValue
        ELSE LET best == CHOOSE i \in chunks :
                            \A j \in chunks :
                                \/ results[i].score > results[j].score
                                \/ results[i].score = results[j].score /\ i <= j
             IN  ExtractValueFromText(name, ResultText(results[best]))

FieldNamesOf(fields) == {fields[i].name : i \in 1..Len(fields)}

\* lines 54-62: the dictionary of the fields, or the exception of the first
\* field whose extraction raises
ExtractedFields(fields, results) ==
    IF \E n \in FieldNamesOf(fields) : ExtractFieldData(n, results).raised
    THEN [returned |-> FALSE, raised |-> TRUE, data |-> <<>>]
    ELSE [returned |-> TRUE, raised |-> FALSE,
          data |-> [n \in FieldNamesOf(fields) |-> ExtractFieldData(n, results)]]

InitFields ==
    /\ request \in FieldRequests
    /\ hits \in FieldRetrievals(request.fields)
    /\ relevant = <<>>
    /\ returned = NoResult
    /\ op = "none"
    /\ flow = <<>>
    /\ TablesIdle
    /\ VerifyIdle
    /\ ParserIdle
    /\ ChunkerIdle
    /\ StoreIdle

\* extract_section_data: the retrieval and the loop over the fields
ExtractSectionFields ==
    /\ op = "none"
    /\ relevant' = RetrievedResults(hits)
    /\ returned' = ExtractedFields(request.fields, relevant')
    /\ op' = "extract_fields"
    /\ UNCHANGED <<hits, flow, request, tblVars, verVars, parVars, chkVars, stoVars>>

NextFields == ExtractSectionFields

SpecFields == InitFields /\ [][NextFields]_vars

\* C28: extract_section_data raises for no field name and no list of
\* results: every field has an extracted value or None, and None without
\* results.
C28_FieldFillingNeverRaises ==
    op = "extract_fields" =>
        /\ returned.returned
        /\ ~returned.raised
        /\ relevant = <<>> => \A n \in DOMAIN returned.data : returned.data[n] = NoValue

\* the field 'dose (mg' with one result: re.error leaves the section
\* without any field
C28_RaisesForOpenParenthesis ==
    /\ op = "extract_fields"
    /\ relevant # <<>>
    /\ request.fields[1].name = fLotField
    /\ Len(request.fields) = 2 /\ request.fields[2].name = fDoseOpenField
    /\ returned.raised

-----------------------------------------------------------------------------
(* SmartChunker: _recursive_split_text, the size of the chunks *)

MaxWords == 3

\* words of 0, 1 and 2 tokens, a separator behind them included
wShort == <<"a", "b">>
wMedium == <<"a", "b", "c", "d">>
wLong == <<"a", "b", "c", "d", "e", "f", "g", "h">>
WordPool == {wShort, wMedium, wLong}

\* texts of words that one separator joins
SplitTexts ==
    {JoinWith(words, sep) : words \in SeqsUpTo(WordPool, MaxWords),
                            sep \in {<<" ">>, <<"\n">>, <<".", " ">>}}

SplitChunkerConfigs ==
    {[chunk_size |-> size, chunk_overlap |-> o, max_chunk_size |-> 4] :
        size \in {1, 2}, o \in {0, 1}}

\* SmartChunker(chunk_size, chunk_overlap, max_chunk_size)._recursive_split_text(text)
SplitTextOfSection ==
    /\ op = "none"
    /\ \E cfg \in SplitChunkerConfigs, text \in SplitTexts :
        /\ chunker' = cfg
        /\ document' = [text |-> text]
        /\ chunked' = RecursiveSplitText(text, cfg)
    /\ op' = "split_text"
    /\ UNCHANGED <<tblVars, verVars, extVars, parVars, flowVars, stoVars>>

NextSplitText == SplitTextOfSection

SpecSplitText == InitChunker /\ [][NextSplitText]_vars

\* the first separator of the list that splits the text (line 239)
ChosenSeparator(text) ==
    LET usable == {k \in 1..Len(Separators) : Len(SplitsOf(text, Separators[k])) > 1}
    IN  Separators[CHOOSE k \in usable : \A j \in usable : k <= j]

\* every unit of the chosen separator, the separator appended as line 246
\* appends it, has at most chunk_size tokens
UnitsFit(text, cfg) ==
    LET separator == ChosenSeparator(text)
        splits == SplitsOf(text, separator)
    IN  \A i \in 1..Len(splits) :
            CountTokens(IF separator = <<>> THEN splits[i] ELSE splits[i] \o separator)
                <= cfg.chunk_size

\* C29: when every unit of the chosen separator fits in chunk_size, every
\* chunk _recursive_split_text returns has at most chunk_size tokens, a
\* chunk that starts with the unit carried over as overlap included.
C29_ChunksWithinChunkSize ==
    (op = "split_text" /\ CountTokens(document.text) > chunker.chunk_size
                       /\ UnitsFit(document.text, chunker)) =>
        \A j \in 1..Len(chunked) : CountTokens(chunked[j]) <= chunker.chunk_size

\* 'abcdefgh abcdefgh abcdefgh' with chunk_size 2 and an overlap: the second
\* chunk holds the unit carried over and the next one, 4 tokens
C29_OverlapChunkTooLarge ==
    /\ op = "split_text"
    /\ chunker = [chunk_size |-> 2, chunk_overlap |-> 1, max_chunk_size |-> 4]
    /\ document.text = JoinWith(<<wLong, wLong, wLong>>, <<" ">>)
    /\ UnitsFit(document.text, chunker)
    /\ Len(chunked) >= 2
    /\ CountTokens(chunked[2]) = 4

-----------------------------------------------------------------------------
(* TemplateParser: _extract_toc_and_glossary, the scan for both sections *)

MaxTemplatePieces == 3

lGlossary == <<"#", " ", "G", "l", "o", "s", "s", "a", "r", "y">>
lTermPh == <<"p", "H", ":", " ", "a", "c", "i", "d", "i", "t", "y">>
lTermLot == <<"L", "o", "t", ":", " ", "b", "a", "t", "c", "h", " ", "n", "u", "m", "b", "e", "r">>

\* Pieces of a template: a table of contents of one entry, a glossary of one
\* term, one of two terms and three lines more, a header of level 1 and one
\* of level 2 with a line.  No line has a link, a number, a bullet, a star
\* or a pipe.
TemplatePieces ==
    {<<lContents, lBody>>,
     <<lGlossary, lTermPh>>,
     <<lGlossary, lTermPh, lBody, lTermLot, lBody, lBody>>,
     <<lAlpha>>,
     <<lBeta, lBody>>}

RECURSIVE Concatenated(_)
Concatenated(pieces) ==
    IF pieces = <<>> THEN <<>> ELSE Head(pieces) \o Concatenated(Tail(pieces))

PiecedTemplates == {Concatenated(p) : p \in SeqsUpTo(TemplatePieces, MaxTemplatePieces)}

\* The loop of lines 630-661 from line i on (lines counted from 1): the
\* four positions when it ends, 0 for None.  Each break ends the loop for
\* both sections.
RECURSIVE ScanTocAndGlossary(_, _, _)
ScanTocAndGlossary(lines, i, at) ==
    IF i > Len(lines) THEN at
    ELSE LET tocStarts == at.toc_start = 0 /\ TocHeading(lines[i])
             tocEnds == /\ ~tocStarts
                        /\ at.toc_start # 0 /\ at.toc_end = 0
                        /\ TocEnds(lines, at.toc_start, i)
             afterToc == IF tocStarts THEN [at EXCEPT !.toc_start = i] ELSE at
             glossaryStarts == at.glossary_start = 0 /\ GlossaryHeading(lines[i])
             glossaryEnds == /\ ~glossaryStarts
                             /\ at.glossary_start # 0 /\ at.glossary_end = 0
                             /\ StartsWith(StripText(lines[i]), <<"#">>)
                             /\ i > at.glossary_start + 5
         IN  IF tocEnds THEN [at EXCEPT !.toc_end = i]
             ELSE IF glossaryStarts
             THEN ScanTocAndGlossary(lines, i + 1, [afterToc EXCEPT !.glossary_start = i])
             ELSE IF glossaryEnds THEN [afterToc EXCEPT !.glossary_end = i]
             ELSE ScanTocAndGlossary(lines, i + 1, afterToc)

ScannedPositions(lines) ==
    ScanTocAndGlossary(lines, 1, [toc_start |-> 0, toc_end |-> 0,
                                  glossary_start |-> 0, glossary_end |-> 0])

\* lines[start:end], end = min(start + span, len(lines)) when None
SectionLines(lines, start, end, span) ==
    SubSeq(lines, start, IF end = 0 THEN Min(start + span - 1, Len(lines)) ELSE end - 1)

\* re.match(r'^([^:]+):\s*(.+)', line_stripped): the position of the colon,
\* 0 without a match
ColonMatch(l) ==
    LET colons == {i \in 1..Len(l) : l[i] = ":"}
        first == CHOOSE i \in colons : \A j \in colons : i <= j
    IN  IF colons # {} /\ first >= 2 /\ first < Len(l) THEN first ELSE 0

\* glossary[term] = definition on a dictionary kept in insertion order
SetTerm(dict, term, definition) ==
    IF \E k \in 1..Len(dict) : dict[k].term = term
    THEN [k \in 1..Len(dict) |->
             IF dict[k].term = term THEN [term |-> term, definition |-> definition] ELSE dict[k]]
    ELSE Append(dict, [term |-> term, definition |-> definition])

\* ' '.join(current_def).strip() stored when a term and a definition are open
Flushed(dict, term, def) ==
    IF term # <<>> /\ def # <<>> THEN SetTerm(dict, term, StripText(JoinWith(def, <<" ">>)))
    ELSE dict

\* _parse_glossary (lines 768-846) for lines without star, bullet and pipe
RECURSIVE ParseGlossary(_, _, _, _)
ParseGlossary(lines, dict, term, def) ==
    IF lines = <<>> THEN Flushed(dict, term, def)
    ELSE LET l == StripText(Head(lines))
             colon == ColonMatch(l)
         IN  IF StartsWith(l, <<"#">>) \/ l = <<>>
             THEN IF term # <<>> /\ def # <<>>
                  THEN ParseGlossary(Tail(lines), Flushed(dict, term, def), <<>>, <<>>)
                  ELSE ParseGlossary(Tail(lines), dict, term, def)
             ELSE IF colon > 0
             THEN ParseGlossary(Tail(lines), Flushed(dict, term, def),
                                StripText(SubSeq(l, 1, colon - 1)),
                                <<StripText(SubSeq(l, colon + 1, Len(l)))>>)
             ELSE IF term # <<>>
             THEN ParseGlossary(Tail(lines), dict, term, Append(def, l))
             ELSE ParseGlossary(Tail(lines), dict, term, def)

\* lines 663-675: toc_structure and glossary, each assigned only when its
\* heading was found
ExtractedToc(old, lines) ==
    LET at == ScannedPositions(lines)
    IN  IF at.toc_start = 0 THEN old
        ELSE ParseTocLines(SectionLines(lines, at.toc_start, at.toc_end, 100))

ExtractedGlossary(old, lines) ==
    LET at == ScannedPositions(lines)
    IN  IF at.glossary_start = 0 THEN old
        ELSE ParseGlossary(SectionLines(lines, at.glossary_start, at.glossary_end, 200),
                           <<>>, <<>>, <<>>)

\* _extract_toc_and_glossary(content) of a parser just constructed
ExtractTocAndGlossary ==
    /\ op = "none"
    /\ \E lines \in PiecedTemplates :
          /\ tcontent' = lines
          /\ toc' = ExtractedToc(toc, lines)
          /\ glossary' = ExtractedGlossary(glossary, lines)
    /\ op' = "extract_toc_and_glossary"
    /\ UNCHANGED <<sections, lookup, tblVars, verVars, extVars, pipelineVars>>

NextTocAndGlossary == ExtractTocAndGlossary

SpecTocAndGlossary == InitParser /\ [][NextTocAndGlossary]_vars

\* the lines of the glossary, from its first heading to the first header
\* more than five lines below it, found by a scan of its own
GlossaryLines(lines) ==
    LET starts == {i \in 1..Len(lines) : GlossaryHeading(lines[i])}
    IN  IF starts = {} THEN <<>>
        ELSE LET s == CHOOSE i \in starts : \A j \in starts : i <= j
                 ends == {i \in (s + 1)..Len(lines) :
                             StartsWith(StripText(lines[i]), <<"#">>) /\ i > s + 5}
             IN  SectionLines(lines, s,
                              IF ends = {} THEN 0
                              ELSE CHOOSE i \in ends : \A j \in ends : i <= j,
                              200)

HasBothHeadings(lines) ==
    /\ \E i \in 1..Len(lines) : TocHeading(lines[i])
    /\ \E i \in 1..Len(lines) : GlossaryHeading(lines[i])

\* C30: for a template with a heading of a table of contents and one of a
\* glossary, the outline is that of the lines of the table of contents and
\* the glossary that of the lines of the glossary, each as a scan for it
\* alone finds them, whichever comes first.
C30_TocAndGlossaryIndependent ==
    (op = "extract_toc_and_glossary" /\ HasBothHeadings(tcontent)) =>
        /\ toc = ParseTocLines(TocLines(tcontent))
        /\ glossary = ParseGlossary(GlossaryLines(tcontent), <<>>, <<>>, <<>>)

\* a table of contents, a header of level 1 and a glossary of one term: the
\* scan stops at the header and the glossary stays empty
C30_GlossaryAfterTocMissed ==
    /\ op = "extract_toc_and_glossary"
    /\ tcontent = <<lContents, lBody, lAlpha, lGlossary, lTermPh>>
    /\ toc # <<>>
    /\ glossary = <<>>

====
